---------------------------- MODULE Spec2Model ----------------------------
(***************************************************************************)
(* A model of the content-addressed store (Disk), the block chain append   *)
(* of Local.Write, and the Parts assembler WriteData.                      *)
(*                                                                         *)
(* Bytes are modelled by the record that the JSON encoding describes, and  *)
(* a ref by the record [alg, sum]: the hash is collision free, so a ref    *)
(* determines the bytes it was computed from.  The empty string of the Go  *)
(* code (no head, no previous block, nil MoreParts) is NoRef.              *)
(***************************************************************************)
EXTENDS Integers, Sequences, FiniteSets, TLC

VARIABLES
    store,      \* Disk: the files of the store directory, ref -> bytes
    head,       \* bolt bucket blockMeta, key lastBlock
    pc,         \* position of each Local.Write call
    w,          \* locals of each Local.Write call
    ret,        \* the last direct Disk.Write / Disk.WriteHash call and its result
    written,    \* history: <<bytes, ref>> of each successful direct Write call, in order
    wd,         \* the WriteData call: its arguments, position and results
    call,       \* a call of WriteChunks, Previous, Query or Search: arguments and result
    index,      \* the index: its version (node id), entries and documents
    wm          \* the call of kala's Write or of WriteMetaAndVersion, and the calls made

vars == <<store, head, pc, w, ret, written, wd, call, index, wm>>

-----------------------------------------------------------------------------
(* Bounds *)

\* Local.Write calls made one after another by one caller
MaxWrites == 3

\* Local.Write calls made concurrently
MaxConcurrent == 2

\* successful direct Write calls on the store
MaxStoreWrites == 3

\* chunk refs given to WriteData: up to 3 * partSize + 7
MaxRefs == 307

\* chunks yielded by the chunker given to WriteChunks
MaxChunks == 3

\* Contents written under one id, and blocks of the chain, that Previous walks
MaxHistory == 3

\* the index of the Content that Previous is first called on
MaxIndex == 2

\* entries of the index that Query reads
MaxEntries == 3

\* the Limit of a Query
MaxLimit == 3

\* calls of kala's Write and of WriteMetaAndVersion, one after another
MaxIndexWrites == 5

\* characters of the string given to FromString
MaxInput == 7

\* characters of the value of a request parameter
MaxParamLen == 2

Calls == 1..(IF MaxWrites > MaxConcurrent THEN MaxWrites ELSE MaxConcurrent)

-----------------------------------------------------------------------------
(* Values *)

\* bytes given to the store directly
StoreBytes == {[raw |-> << >>], [raw |-> <<0>>], [raw |-> <<1>>]}

NoRef == [alg |-> ""]

Ids == {"", "doc1"}

\* payloads given to Local.Write: empty, one chunk, two chunks (sharing the first)
Payloads == {<< >>, <<1>>, <<1, 0>>}

NoFields == << >>

\* no call made
NoCall == [op |-> "none"]

\* no call of Write or WriteMetaAndVersion made
NoWrite == [op |-> "none", pc |-> "idle", n |-> 0]

\* an index nothing was written to
NoIndex == [nodeId |-> "node1", entries |-> << >>, docs |-> << >>]

\* Disk.Hash
Hash(b) == [alg |-> "blake2b256", sum |-> b]

\* refs given to WriteHash: the hashes of StoreBytes and of bytes never written
StoreRefs == {Hash(b) : b \in StoreBytes \cup {[raw |-> <<0, 0>>]}}

\* Disk.Exists
Exists(st, h) == h \in DOMAIN st

\* Disk.writeHash: ioutil.WriteFile(path/h, b), unverified
writeHash(st, h, b) == [x \in DOMAIN st \cup {h} |-> IF x = h THEN b ELSE st[x]]


\* store errors
NoErr == [kind |-> "nil", wrapped |-> FALSE]

HashNotMatchContentErr == [kind |-> "HashNotMatchContent", wrapped |-> FALSE]

IoErr == [kind |-> "io", wrapped |-> TRUE]

\* Disk.Write; ok is whether the file write succeeds
DiskWriteNoStore(st, b, ok) ==
    [err |-> IF ok THEN NoErr ELSE IoErr, h |-> IF ok THEN Hash(b) ELSE NoRef, store |-> st]

DiskWrite(st, b, ok) ==
    IF ok
    THEN [err |-> NoErr, h |-> Hash(b), store |-> writeHash(st, Hash(b), b)]
    ELSE [err |-> IoErr, h |-> NoRef, store |-> st]

\* Disk.WriteHash
DiskWriteHashUnverified(st, h, b, ok) ==
    IF ok
    THEN [err |-> NoErr, store |-> writeHash(st, h, b)]
    ELSE [err |-> IoErr, store |-> st]

DiskWriteHash(st, h, b, ok) ==
    IF h # Hash(b)
    THEN [err |-> HashNotMatchContentErr, store |-> st]
    ELSE IF ok
         THEN [err |-> NoErr, store |-> writeHash(st, h, b)]
         ELSE [err |-> IoErr, store |-> st]

\* errors.Wrap: nil stays nil
Wrap(e) == IF e = NoErr THEN NoErr ELSE [e EXCEPT !.wrapped = TRUE]

\* store.WriteReader
WriteReader(st, b, ok) ==
    LET r == DiskWrite(st, b, ok)
    IN  [err |-> Wrap(r.err), h |-> r.h, store |-> r.store]

\* store.WriteHashReader: the hash mismatch error is passed through unwrapped
WriteHashReaderWrapsAll(st, h, b, ok) ==
    LET r == DiskWriteHash(st, h, b, ok)
    IN  [err |-> Wrap(r.err), store |-> r.store]

WriteHashReader(st, h, b, ok) ==
    LET r == DiskWriteHash(st, h, b, ok)
    IN  [err |-> IF r.err = HashNotMatchContentErr THEN r.err ELSE Wrap(r.err),
         store |-> r.store]

\* MarshalAndWrite: json.Marshal is the record itself, then s.Write
MarshalAndWrite(st, v, ok) == DiskWrite(st, v, ok)

-----------------------------------------------------------------------------
(* The roller: chunks of a payload.  A boundary follows every byte 1 (the   *)
(* rolling value matching the mask); the rest of the stream is the last     *)
(* chunk.  End of stream is reported with a zero chunk.                     *)

RECURSIVE Split(_, _)
Split(rest, cur) ==
    IF rest = << >>
    THEN IF cur = << >> THEN << >> ELSE <<cur>>
    ELSE IF Head(rest) = 1
         THEN <<Append(cur, Head(rest))>> \o Split(Tail(rest), << >>)
         ELSE Split(Tail(rest), Append(cur, Head(rest)))

\* json of fixity.Chunk: the boundaries are not stored
Chunk(bytes) == [chunkBytes |-> bytes, size |-> Len(bytes)]

Roller(payload) ==
    LET cs == Split(payload, << >>)
    IN  [i \in 1..(Len(cs) + 1) |->
            IF i <= Len(cs) THEN [c |-> Chunk(cs[i]), eof |-> FALSE]
                            ELSE [c |-> Chunk(<< >>), eof |-> TRUE]]

\* WriteRoller from roll k on; fuel is the number of store writes that succeed
RECURSIVE WriteRollerFrom(_, _, _, _, _, _)
WriteRollerFrom(st, rolls, k, fuel, hashes, totalSize) ==
    LET r == rolls[k]
        size == totalSize + r.c.size
    IN  IF r.eof
        THEN [err |-> FALSE, hashes |-> hashes, totalSize |-> size, store |-> st]
        ELSE LET m == MarshalAndWrite(st, r.c, fuel > 0)
             IN  IF m.err # NoErr
                 THEN [err |-> TRUE, hashes |-> << >>, totalSize |-> 0, store |-> m.store]
                 ELSE WriteRollerFrom(m.store, rolls, k + 1, fuel - 1,
                                      Append(hashes, m.h), size)

WriteRoller(st, rolls, fuel) == WriteRollerFrom(st, rolls, 1, fuel, << >>, 0)

-----------------------------------------------------------------------------
(* Local.Write, one step per store or head-store call *)

\* the locals of a call that has not started, or has returned an error
InitW == [id |-> "", payload |-> << >>, cHashes |-> << >>, totalSize |-> 0,
          blobHash |-> NoRef, previousBlockHash |-> NoRef, cHash |-> NoRef,
          lastBlock |-> 0, bHash |-> NoRef, hashes |-> << >>]

\* json of fixi.Blob
BlobWithId(c) == [chunkHashes |-> w[c].cHashes, size |-> w[c].totalSize,
                  rollSize |-> "camli.DefaultMinRollSize", id |-> w[c].id]

Blob(c) == [chunkHashes |-> w[c].cHashes, size |-> w[c].totalSize,
            rollSize |-> "camli.DefaultMinRollSize"]

\* json of fixi.Content; Write never sets PreviousContentHash
Content(c) == [id |-> w[c].id, previousContentHash |-> NoRef,
               blobHash |-> w[c].blobHash, indexedFields |-> NoFields]

\* json of fixi.Block
BlockStale(c) == [block |-> 1,
                  previousBlockHash |-> w[c].previousBlockHash,
                  contentHash |-> w[c].cHash]

Block(c) == [block |-> w[c].lastBlock + 1,
             previousBlockHash |-> w[c].previousBlockHash,
             contentHash |-> w[c].cHash]

IsBlock(b) == DOMAIN b = {"block", "previousBlockHash", "contentHash"}

IsChunkOrBlob(b) == "chunkBytes" \in DOMAIN b \/ "chunkHashes" \in DOMAIN b

Running(c) == pc[c] \notin {"new", "done", "failed"}

\* return nil, err
Fail(c) ==
    /\ pc' = [pc EXCEPT ![c] = "failed"]
    /\ w' = [w EXCEPT ![c] = InitW]

\* the call, through WriteRoller
StartWrite(c) ==
    /\ pc[c] = "new"
    /\ IF c = 1 THEN TRUE ELSE pc[c - 1] # "new"
    /\ \E id \in Ids, payload \in Payloads :
         \E fuel \in 0..(Len(Roller(payload)) - 1) :
            LET r == WriteRoller(store, Roller(payload), fuel)
            IN  /\ store' = r.store
                /\ IF r.err
                   THEN Fail(c)
                   ELSE /\ pc' = [pc EXCEPT ![c] = "blob"]
                        /\ w' = [w EXCEPT ![c] =
                                   [InitW EXCEPT !.id = id, !.payload = payload,
                                                 !.cHashes = r.hashes,
                                                 !.totalSize = r.totalSize,
                                                 !.hashes = r.hashes]]
    /\ UNCHANGED <<head, ret, written, wd, call, index, wm>>

\* blobHash, err := MarshalAndWrite(l.store, blob)
WriteBlob(c) ==
    /\ pc[c] = "blob"
    /\ \E ok \in BOOLEAN :
         LET m == MarshalAndWrite(store, Blob(c), ok)
         IN  /\ store' = m.store
             /\ IF m.err # NoErr
                THEN Fail(c)
                ELSE /\ pc' = [pc EXCEPT ![c] = "getHead"]
                     /\ w' = [w EXCEPT ![c].blobHash = m.h,
                                       ![c].hashes = Append(@, m.h)]
    /\ UNCHANGED <<head, ret, written, wd, call, index, wm>>

\* previousBlockHash, err := l.getHead()
getHead(c) ==
    /\ pc[c] = "getHead"
    /\ \E ok \in BOOLEAN :
         IF ok
         THEN /\ pc' = [pc EXCEPT ![c] = "content"]
              /\ w' = [w EXCEPT ![c].previousBlockHash = head]
         ELSE Fail(c)
    /\ UNCHANGED <<store, head, ret, written, wd, call, index, wm>>

\* cHash, err := MarshalAndWrite(l.store, content)
WriteContent(c) ==
    /\ pc[c] = "content"
    /\ \E ok \in BOOLEAN :
         LET m == MarshalAndWrite(store, Content(c), ok)
         IN  /\ store' = m.store
             /\ IF m.err # NoErr
                THEN Fail(c)
                ELSE /\ pc' = [pc EXCEPT ![c] = "readPrev"]
                     /\ w' = [w EXCEPT ![c].cHash = m.h,
                                       ![c].hashes = Append(@, m.h)]
    /\ UNCHANGED <<head, ret, written, wd, call, index, wm>>

\* ReadAndUnmarshal(l.store, previousBlockHash, &prevBlock)
ReadPrevBlock(c) ==
    /\ pc[c] = "readPrev"
    /\ \E ok \in BOOLEAN :
         IF w[c].previousBlockHash = NoRef
         THEN /\ pc' = [pc EXCEPT ![c] = "block"]
              /\ w' = w
         ELSE IF ok /\ Exists(store, w[c].previousBlockHash)
              THEN /\ pc' = [pc EXCEPT ![c] = "block"]
                   /\ w' = [w EXCEPT ![c].lastBlock =
                                        store[w[c].previousBlockHash].block]
              ELSE Fail(c)
    /\ UNCHANGED <<store, head, ret, written, wd, call, index, wm>>

\* bHash, err := MarshalAndWrite(l.store, block)
WriteBlockIgnoringErr(c) ==
    /\ pc[c] = "block"
    /\ \E ok \in BOOLEAN :
         LET m == MarshalAndWrite(store, Block(c), ok)
         IN  /\ store' = m.store
             /\ pc' = [pc EXCEPT ![c] = "setHead"]
             /\ w' = [w EXCEPT ![c].bHash = Hash(Block(c)),
                               ![c].hashes = Append(@, Hash(Block(c)))]
    /\ UNCHANGED <<head, ret, written, wd, call, index, wm>>

WriteBlock(c) ==
    /\ pc[c] = "block"
    /\ \E ok \in BOOLEAN :
         LET m == MarshalAndWrite(store, Block(c), ok)
         IN  /\ store' = m.store
             /\ IF m.err # NoErr
                THEN Fail(c)
                ELSE /\ pc' = [pc EXCEPT ![c] = "setHead"]
                     /\ w' = [w EXCEPT ![c].bHash = m.h,
                                       ![c].hashes = Append(@, m.h)]
    /\ UNCHANGED <<head, ret, written, wd, call, index, wm>>

\* l.setHead(bHash), then return hashes, nil
setHead(c) ==
    /\ pc[c] = "setHead"
    /\ \E ok \in BOOLEAN :
         IF ok
         THEN /\ head' = w[c].bHash
              /\ pc' = [pc EXCEPT ![c] = "done"]
              /\ w' = w
         ELSE /\ head' = head
              /\ Fail(c)
    /\ UNCHANGED <<store, ret, written, wd, call, index, wm>>

Write(c) ==
    \/ StartWrite(c)
    \/ WriteBlob(c)
    \/ getHead(c)
    \/ WriteContent(c)
    \/ ReadPrevBlock(c)
    \/ WriteBlock(c)
    \/ setHead(c)

Init ==
    /\ store = << >>
    /\ head = NoRef
    /\ pc = [c \in Calls |-> "new"]
    /\ w = [c \in Calls |-> InitW]
    /\ ret = [op |-> "none"]
    /\ written = << >>
    /\ wm = NoWrite
    /\ wd = [pc |-> "none"]
    /\ call = NoCall
    /\ index = NoIndex

\* concurrent callers: calls interleave between any two steps
Next == \E c \in 1..MaxConcurrent : Write(c)

Spec == Init /\ [][Next]_vars

\* one caller: a call is made when no other call is running
CallInTurn(c) ==
    /\ \A d \in Calls \ {c} : ~Running(d)
    /\ StartWrite(c)

SeqNext ==
    \E c \in 1..MaxWrites :
        \/ CallInTurn(c)
        \/ WriteBlob(c)
        \/ getHead(c)
        \/ WriteContent(c)
        \/ ReadPrevBlock(c)
        \/ WriteBlock(c)
        \/ setHead(c)

SpecSeq == Init /\ [][SeqNext]_vars

-----------------------------------------------------------------------------
(* Direct calls on the store, through the helpers of store/helper.go *)

StoreWrite ==
    /\ Len(written) < MaxStoreWrites
    /\ \E b \in StoreBytes, ok \in BOOLEAN :
         LET r == WriteReader(store, b, ok)
         IN  /\ store' = r.store
             /\ ret' = [op |-> "Write", b |-> b, h |-> r.h, err |-> r.err,
                        before |-> store]
             /\ written' = IF r.err = NoErr THEN Append(written, <<b, r.h>>)
                                            ELSE written
    /\ UNCHANGED <<head, pc, w, wd, call, index, wm>>

StoreWriteHash ==
    /\ \E h \in StoreRefs, b \in StoreBytes, ok \in BOOLEAN :
         LET r == WriteHashReader(store, h, b, ok)
         IN  /\ store' = r.store
             /\ ret' = [op |-> "WriteHash", b |-> b, h |-> h, err |-> r.err,
                        before |-> store]
    /\ UNCHANGED <<head, pc, w, written, wd, call, index, wm>>

StoreNext == StoreWrite \/ StoreWriteHash

SpecStore == Init /\ [][StoreNext]_vars

-----------------------------------------------------------------------------
(* WriteData: the Data node and the Parts pages of a chunk ref list *)

partSize == 100

\* Go's integer division truncates toward zero
GoDiv(a, b) == IF a >= 0 THEN a \div b ELSE -((-a) \div b)

\* Go's s[lo:hi]
GoSlice(s, lo, hi) == SubSeq(s, lo + 1, hi)

morePartCountNoMinus(chunkRefLen) == GoDiv(chunkRefLen, partSize)

morePartCount(chunkRefLen) == GoDiv(chunkRefLen - 1, partSize)

\* json of fixity.PartsSchema; a nil MoreParts is NoRef
PartsSchema(parts, moreParts) ==
    [schemaType |-> "parts", parts |-> parts, moreParts |-> moreParts]

\* the bounds of part i
PartBounds(chunkRefLen, i) ==
    LET startBound == partSize * i
    IN  [startBound |-> startBound,
         endBound |-> IF i = morePartCount(chunkRefLen)
                      THEN startBound + (chunkRefLen % partSize)
                      ELSE startBound + partSize]

\* the loop writing the parts, from i down to 1; fuel is the number of store
\* writes that succeed
RECURSIVE WritePartsForgetsRef(_, _, _, _, _, _)
WritePartsForgetsRef(st, chunkRefs, chunkRefLen, i, lastPart, fuel) ==
    IF i <= 0
    THEN [err |-> FALSE, store |-> st, chunkRefs |-> chunkRefs,
          lastPart |-> lastPart, fuel |-> fuel]
    ELSE LET bd == PartBounds(chunkRefLen, i)
             part == PartsSchema(GoSlice(chunkRefs, bd.startBound, bd.endBound),
                                 lastPart)
             m == MarshalAndWrite(st, part, fuel > 0)
         IN  IF m.err # NoErr
             THEN [err |-> TRUE, store |-> m.store, chunkRefs |-> chunkRefs,
                   lastPart |-> lastPart, fuel |-> fuel]
             ELSE WritePartsForgetsRef(m.store, chunkRefs, chunkRefLen, i - 1, m.h,
                                       fuel - 1)

RECURSIVE WriteParts(_, _, _, _, _, _)
WriteParts(st, chunkRefs, chunkRefLen, i, lastPart, fuel) ==
    IF i <= 0
    THEN [err |-> FALSE, store |-> st, chunkRefs |-> chunkRefs,
          lastPart |-> lastPart, fuel |-> fuel]
    ELSE LET bd == PartBounds(chunkRefLen, i)
             part == PartsSchema(GoSlice(chunkRefs, bd.startBound, bd.endBound),
                                 lastPart)
             m == MarshalAndWrite(st, part, fuel > 0)
         IN  IF m.err # NoErr
             THEN [err |-> TRUE, store |-> m.store, chunkRefs |-> chunkRefs,
                   lastPart |-> lastPart, fuel |-> fuel]
             ELSE WriteParts(m.store, Append(chunkRefs, m.h), chunkRefLen,
                             i - 1, m.h, fuel - 1)

\* json of fixity.DataSchema
DataSchemaLastPart(chunkRefs, chunkRefLen, lastPart, totalSize, contentHash) ==
    [schemaType |-> "data",
     parts |-> GoSlice(chunkRefs, partSize * morePartCount(chunkRefLen), chunkRefLen),
     moreParts |-> lastPart, size |-> totalSize, checksum |-> contentHash]

DataSchema(chunkRefs, chunkRefLen, lastPart, totalSize, contentHash) ==
    LET endBound == IF chunkRefLen < partSize THEN chunkRefLen ELSE partSize
    IN  [schemaType |-> "data", parts |-> GoSlice(chunkRefs, 0, endBound),
         moreParts |-> lastPart, size |-> totalSize, checksum |-> contentHash]

NoData == [schemaType |-> "nil"]

WriteData(st, chunkRefs, totalSize, contentHash, fuel) ==
    LET chunkRefLen == Len(chunkRefs)
        ps == WriteParts(st, chunkRefs, chunkRefLen, morePartCount(chunkRefLen),
                         NoRef, fuel)
        data == DataSchema(ps.chunkRefs, chunkRefLen, ps.lastPart, totalSize,
                           contentHash)
        m == MarshalAndWrite(ps.store, data, ps.fuel > 0)
    IN  IF ps.err
        THEN [err |-> TRUE, refs |-> << >>, data |-> NoData, store |-> ps.store]
        ELSE IF m.err # NoErr
        THEN [err |-> TRUE, refs |-> << >>, data |-> NoData, store |-> m.store]
        ELSE [err |-> FALSE, refs |-> Append(ps.chunkRefs, m.h), data |-> data,
              store |-> m.store]

\* the chunk refs given: n refs, all different or all the same
ChunkRefs(n, same) == [i \in 1..n |-> Hash(Chunk(<<IF same THEN 0 ELSE i>>))]

Arg == ChunkRefs(wd.n, wd.same)

WriteDataCall ==
    /\ wd.pc = "ready"
    /\ \E fuel \in 0..(morePartCount(wd.n) + 1) :
         LET r == WriteData(store, Arg, wd.n, "checksum", fuel)
         IN  /\ store' = r.store
             /\ wd' = [wd EXCEPT !.pc = "returned", !.err = r.err,
                                 !.refs = r.refs, !.data = r.data]
    /\ UNCHANGED <<head, pc, w, ret, written, call, index, wm>>

InitData ==
    /\ store = << >>
    /\ head = NoRef
    /\ pc = [c \in Calls |-> "new"]
    /\ w = [c \in Calls |-> InitW]
    /\ ret = [op |-> "none"]
    /\ written = << >>
    /\ wm = NoWrite
    /\ wd \in {[pc |-> "ready", n |-> n, same |-> same, err |-> FALSE,
                refs |-> << >>, data |-> NoData] :
                    n \in 0..MaxRefs, same \in BOOLEAN}
    /\ call = NoCall
    /\ index = NoIndex

SpecData == InitData /\ [][WriteDataCall]_vars

\* reading: from an object of the store, its refs and then those of the
\* pages its MoreParts leads to
RECURSIVE ReadAppend(_, _)
ReadAppend(st, h) ==
    IF ~Exists(st, h) THEN << >>
    ELSE st[h].parts \o (IF st[h].moreParts = NoRef THEN << >>
                         ELSE ReadAppend(st, st[h].moreParts))

\* reading, each page reached put before what was read so far
RECURSIVE ReadPrepend(_, _)
ReadPrepend(st, h) ==
    IF ~Exists(st, h) THEN << >>
    ELSE (IF st[h].moreParts = NoRef THEN << >>
          ELSE ReadPrepend(st, st[h].moreParts)) \o st[h].parts

-----------------------------------------------------------------------------
(* WriteChunks: the chunks of a chunker written as raw bytes *)

\* the byte strings a chunker yields as one chunk
ChunkBytes == {<<0>>, <<1>>, <<0, 1>>}

\* the bytes of the chunk value returned together with io.EOF
EofBytes == {<< >>, <<1>>}

SeqsUpTo(S, n) == UNION {[1..k -> S] : k \in 0..n}

\* r.Chunk(ctx), call after call: the chunks, then a last value with io.EOF or
\* with another error
Chunker(chunks, last) ==
    [i \in 1..(Len(chunks) + 1) |->
        IF i <= Len(chunks) THEN [c |-> Chunk(chunks[i]), err |-> "nil"]
                            ELSE [c |-> Chunk(last.bytes), err |-> last.err]]

\* hex.EncodeToString(hasher.Sum(nil)) of a hasher given the bytes b
HexSum(b) == [hex |-> Hash([raw |-> b]).sum]

\* the loop of WriteChunks from call k of the chunker on; hasher is the bytes
\* written to the hasher so far, fuel the number of store writes that succeed
RECURSIVE WriteChunksFrom(_, _, _, _, _, _, _)
WriteChunksFrom(st, rolls, k, fuel, hashes, totalSize, hasher) ==
    LET r == rolls[k]
        size == totalSize + r.c.size
    IN  IF r.err \notin {"nil", "EOF"}
        THEN [err |-> TRUE, refs |-> << >>, totalSize |-> 0,
              contentHash |-> "", store |-> st]
        ELSE IF r.err = "EOF"
        THEN [err |-> FALSE, refs |-> hashes, totalSize |-> size,
              contentHash |-> HexSum(hasher), store |-> st]
        ELSE LET m == DiskWrite(st, [raw |-> r.c.chunkBytes], fuel > 0)
             IN  IF m.err # NoErr
                 THEN [err |-> TRUE, refs |-> << >>, totalSize |-> 0,
                       contentHash |-> "", store |-> m.store]
                 ELSE WriteChunksFrom(m.store, rolls, k + 1, fuel - 1,
                                      Append(hashes, m.h), size,
                                      hasher \o r.c.chunkBytes)

WriteChunks(st, rolls, fuel) == WriteChunksFrom(st, rolls, 1, fuel, << >>, 0, << >>)

WriteChunksCall ==
    /\ call.op = "WriteChunks"
    /\ call.pc = "ready"
    /\ \E fuel \in 0..Len(call.chunks) :
         LET r == WriteChunks(store, Chunker(call.chunks, call.last), fuel)
         IN  /\ store' = r.store
             /\ call' = [call EXCEPT !.pc = "returned", !.err = r.err,
                                     !.refs = r.refs, !.totalSize = r.totalSize,
                                     !.contentHash = r.contentHash]
    /\ UNCHANGED <<head, pc, w, ret, written, wd, index, wm>>

InitChunks ==
    /\ store = << >>
    /\ head = NoRef
    /\ pc = [c \in Calls |-> "new"]
    /\ w = [c \in Calls |-> InitW]
    /\ ret = [op |-> "none"]
    /\ written = << >>
    /\ wm = NoWrite
    /\ wd = [pc |-> "none"]
    /\ index = NoIndex
    /\ call \in {[op |-> "WriteChunks", pc |-> "ready", chunks |-> chunks,
                  last |-> [bytes |-> b, err |-> e], err |-> FALSE,
                  refs |-> << >>, totalSize |-> 0, contentHash |-> ""] :
                     chunks \in SeqsUpTo(ChunkBytes, MaxChunks),
                     b \in EofBytes, e \in {"EOF", "chunk"}}

SpecChunks == InitChunks /\ [][WriteChunksCall]_vars

-----------------------------------------------------------------------------
(* Block.Previous and Content.Previous *)

ErrNoPrev == [kind |-> "ErrNoPrev", wrapped |-> FALSE]

\* errors.New("block: Store not set"), errors.New("content: Store not set")
StoreNotSet == [kind |-> "StoreNotSet", wrapped |-> FALSE]

\* the error of a store read: no such object, or the read failed
ReadErr == [kind |-> "read", wrapped |-> FALSE]

\* the error of json.Unmarshal: the bytes are not a json object
JsonErr == [kind |-> "json", wrapped |-> FALSE]

Field(o, f, zero) == IF f \in DOMAIN o THEN o[f] ELSE zero

\* json.Unmarshal into a Content: Hash, Index and Store are not in the json
UnmarshalContent(o) ==
    [id |-> Field(o, "id", ""),
     previousContentHash |-> Field(o, "previousContentHash", NoRef),
     blobHash |-> Field(o, "blobHash", NoRef),
     indexedFields |-> Field(o, "indexedFields", NoFields),
     hash |-> NoRef, index |-> 0, hasStore |-> FALSE]

\* json.Unmarshal into a Block
UnmarshalBlock(o) ==
    [block |-> Field(o, "block", 0),
     previousBlockHash |-> Field(o, "previousBlockHash", NoRef),
     contentHash |-> Field(o, "contentHash", NoRef),
     hash |-> NoRef, hasStore |-> FALSE]

\* Content{} and Block{}
ZeroContent == UnmarshalContent(<< >>)

ZeroBlock == UnmarshalBlock(<< >>)

\* readAndUnmarshal(store, h, &v); ok is whether the read succeeds; o is the
\* json object read, which the caller's type picks its fields from
readAndUnmarshal(st, h, ok) ==
    IF ~ok \/ ~Exists(st, h) THEN [o |-> << >>, err |-> ReadErr]
    ELSE IF "raw" \in DOMAIN st[h] THEN [o |-> << >>, err |-> JsonErr]
    ELSE [o |-> st[h], err |-> NoErr]

\* Block.Previous; reads is the number of store reads made
BlockPreviousReadFirst(st, b, ok) ==
    LET r == readAndUnmarshal(st, b.previousBlockHash, ok)
    IN  IF r.err # NoErr
        THEN [v |-> ZeroBlock, err |-> IF ok THEN ErrNoPrev ELSE r.err, reads |-> 1]
        ELSE [v |-> [UnmarshalBlock(r.o) EXCEPT !.hash = b.previousBlockHash, !.hasStore = TRUE],
              err |-> NoErr, reads |-> 1]

BlockPrevious(st, b, ok) ==
    IF b.previousBlockHash = NoRef
    THEN [v |-> ZeroBlock, err |-> ErrNoPrev, reads |-> 0]
    ELSE IF ~b.hasStore
    THEN [v |-> ZeroBlock, err |-> StoreNotSet, reads |-> 0]
    ELSE LET r == readAndUnmarshal(st, b.previousBlockHash, ok)
         IN  IF r.err # NoErr
             THEN [v |-> ZeroBlock, err |-> r.err, reads |-> 1]
             ELSE [v |-> [UnmarshalBlock(r.o) EXCEPT !.hash = b.previousBlockHash,
                                     !.hasStore = TRUE],
                   err |-> NoErr, reads |-> 1]

\* Content.Previous
ContentPreviousAlwaysCounts(st, c, ok) ==
    IF c.previousContentHash = NoRef
    THEN [v |-> ZeroContent, err |-> ErrNoPrev, reads |-> 0]
    ELSE IF ~c.hasStore
    THEN [v |-> ZeroContent, err |-> StoreNotSet, reads |-> 0]
    ELSE LET r == readAndUnmarshal(st, c.previousContentHash, ok)
         IN  IF r.err # NoErr
             THEN [v |-> ZeroContent, err |-> r.err, reads |-> 1]
             ELSE [v |-> [UnmarshalContent(r.o) EXCEPT !.hash = c.previousContentHash,
                                     !.hasStore = TRUE,
                                     !.index = c.index + 1],
                   err |-> NoErr, reads |-> 1]

ContentPrevious(st, c, ok) ==
    IF c.previousContentHash = NoRef
    THEN [v |-> ZeroContent, err |-> ErrNoPrev, reads |-> 0]
    ELSE IF ~c.hasStore
    THEN [v |-> ZeroContent, err |-> StoreNotSet, reads |-> 0]
    ELSE LET r == readAndUnmarshal(st, c.previousContentHash, ok)
         IN  IF r.err # NoErr
             THEN [v |-> ZeroContent, err |-> r.err, reads |-> 1]
             ELSE [v |-> [UnmarshalContent(r.o) EXCEPT !.hash = c.previousContentHash,
                                     !.hasStore = TRUE,
                                     !.index = IF c.index # 0 THEN c.index + 1
                                                              ELSE @],
                   err |-> NoErr, reads |-> 1]

\* the k-th Content written under id doc1, and the k-th block of a chain
RECURSIVE ContentAt(_)
ContentAt(k) ==
    [id |-> "doc1",
     previousContentHash |-> IF k = 1 THEN NoRef ELSE Hash(ContentAt(k - 1)),
     blobHash |-> Hash([chunkHashes |-> << >>, size |-> k]),
     indexedFields |-> NoFields]

RECURSIVE BlockAt(_)
BlockAt(k) ==
    [block |-> k,
     previousBlockHash |-> IF k = 1 THEN NoRef ELSE Hash(BlockAt(k - 1)),
     contentHash |-> Hash(ContentAt(k))]

\* a store holding the objects of S
StoreOf(S) == [h \in {Hash(o) : o \in S} |-> CHOOSE o \in S : Hash(o) = h]

\* the stores Previous is called on: the whole histories, or the histories
\* with the objects numbered k missing
HistoryStores ==
    {StoreOf({ContentAt(k) : k \in 1..MaxHistory \ {m}}
             \cup {BlockAt(k) : k \in 1..MaxHistory \ {m}}) : m \in 0..1}

\* the receiver of the next call: the value given, then the value returned
Receiver == IF call.n = 0 THEN call.v ELSE call.res

BlockPreviousCall ==
    /\ call.op = "Block.Previous"
    /\ call.err = NoErr
    /\ \E ok \in BOOLEAN :
         LET r == BlockPrevious(store, Receiver, ok)
         IN  call' = [call EXCEPT !.n = @ + 1, !.v = Receiver, !.res = r.v,
                                  !.err = r.err, !.reads = r.reads]
    /\ UNCHANGED <<store, head, pc, w, ret, written, wd, index, wm>>

ContentPreviousCall ==
    /\ call.op = "Content.Previous"
    /\ call.err = NoErr
    /\ \E ok \in BOOLEAN :
         LET r == ContentPrevious(store, Receiver, ok)
         IN  call' = [call EXCEPT !.n = @ + 1, !.v = Receiver, !.res = r.v,
                                  !.err = r.err, !.reads = r.reads]
    /\ UNCHANGED <<store, head, pc, w, ret, written, wd, index, wm>>

\* a Content or Block loaded from the store: its hash and Store are set, its
\* index is known (from 1) or not (0)
InitPrev ==
    /\ store \in HistoryStores
    /\ head = NoRef
    /\ pc = [c \in Calls |-> "new"]
    /\ w = [c \in Calls |-> InitW]
    /\ ret = [op |-> "none"]
    /\ written = << >>
    /\ wm = NoWrite
    /\ wd = [pc |-> "none"]
    /\ index = NoIndex
    /\ \/ call \in {[op |-> "Content.Previous", n |-> 0, start |-> i,
                      v |-> [UnmarshalContent(ContentAt(k)) EXCEPT
                                !.hash = Hash(ContentAt(k)), !.index = i,
                                !.hasStore = hs],
                      res |-> ZeroContent, err |-> NoErr, reads |-> 0] :
                         k \in 1..MaxHistory, i \in 0..MaxIndex, hs \in BOOLEAN}
       \/ call \in {[op |-> "Block.Previous", n |-> 0, start |-> 0,
                      v |-> [UnmarshalBlock(BlockAt(k)) EXCEPT
                                !.hash = Hash(BlockAt(k)), !.hasStore = hs],
                      res |-> ZeroBlock, err |-> NoErr, reads |-> 0] :
                         k \in 1..MaxHistory, hs \in BOOLEAN}

PrevNext == BlockPreviousCall \/ ContentPreviousCall

SpecPrev == InitPrev /\ [][PrevNext]_vars

-----------------------------------------------------------------------------
(* Dbindex.Query and the query handler *)

ErrIndexVersionsDoNotMatch == [kind |-> "ErrIndexVersionsDoNotMatch", wrapped |-> FALSE]

ErrNoQueryResults == [kind |-> "ErrNoQueryResults", wrapped |-> FALSE]

\* a failure of the database, wrapped by Query
DbErr == [kind |-> "db", wrapped |-> TRUE]

\* make([]string, q.Limit) with a negative Limit
MakeSlicePanic == [kind |-> "panic", wrapped |-> FALSE]

\* index.Results{}
NoResults == [indexVersion |-> "", hashes |-> << >>]

\* the hash entered in the index at position j
EntryAt(j) == Hash([raw |-> <<j>>])

\* an index of n entries, numbered by the database from first on
IndexOf(first, n) ==
    [nodeId |-> "node1",
     entries |-> [j \in first..(first + n - 1) |-> EntryAt(j)],
     docs |-> << >>]

\* dbi.db.GetIndexEntry(j) answers database.ErrNoRecord
NoRecord(idx, j) == j \notin DOMAIN idx.entries

\* the loop of Query: entries from, from + 1, ... up to limit entries or the
\* first position without a record; fuel is the number of database calls that
\* succeed
RECURSIVE QueryLoopSkipsFirst(_, _, _, _, _, _)
QueryLoopSkipsFirst(idx, from, limit, i, fuel, indexEntries) ==
    IF i >= limit THEN [err |-> NoErr, hashes |-> indexEntries]
    ELSE IF fuel <= 0 THEN [err |-> DbErr, hashes |-> << >>]
    ELSE IF NoRecord(idx, from + i + 1) THEN [err |-> NoErr, hashes |-> indexEntries]
    ELSE QueryLoopSkipsFirst(idx, from, limit, i + 1, fuel - 1,
                             Append(indexEntries, idx.entries[from + i + 1]))

RECURSIVE QueryLoop(_, _, _, _, _, _)
QueryLoop(idx, from, limit, i, fuel, indexEntries) ==
    IF i >= limit THEN [err |-> NoErr, hashes |-> indexEntries]
    ELSE IF fuel <= 0 THEN [err |-> DbErr, hashes |-> << >>]
    ELSE IF NoRecord(idx, from + i) THEN [err |-> NoErr, hashes |-> indexEntries]
    ELSE QueryLoop(idx, from, limit, i + 1, fuel - 1,
                   Append(indexEntries, idx.entries[from + i]))

\* Dbindex.Query; the first database call is GetNodeId
QueryLimitFirst(idx, q, fuel) ==
    IF fuel <= 0 THEN [results |-> NoResults, err |-> DbErr]
    ELSE IF q.limit = 0 THEN [results |-> NoResults, err |-> ErrNoQueryResults]
    ELSE IF q.indexVersion # "" /\ idx.nodeId # q.indexVersion
    THEN [results |-> NoResults, err |-> ErrIndexVersionsDoNotMatch]
    ELSE IF q.fromEntry # 0
    THEN IF q.limit < 0 THEN [results |-> NoResults, err |-> MakeSlicePanic]
         ELSE LET r == QueryLoop(idx, q.fromEntry, q.limit, 0, fuel - 1, << >>)
              IN  IF r.err # NoErr THEN [results |-> NoResults, err |-> r.err]
                  ELSE [results |-> [indexVersion |-> idx.nodeId,
                                     hashes |-> r.hashes],
                        err |-> NoErr]
    ELSE [results |-> NoResults, err |-> ErrNoQueryResults]

Query(idx, q, fuel) ==
    IF fuel <= 0 THEN [results |-> NoResults, err |-> DbErr]
    ELSE IF q.indexVersion # "" /\ idx.nodeId # q.indexVersion
    THEN [results |-> NoResults, err |-> ErrIndexVersionsDoNotMatch]
    ELSE IF q.limit = 0 THEN [results |-> NoResults, err |-> ErrNoQueryResults]
    ELSE IF q.fromEntry # 0
    THEN IF q.limit < 0 THEN [results |-> NoResults, err |-> MakeSlicePanic]
         ELSE LET r == QueryLoop(idx, q.fromEntry, q.limit, 0, fuel - 1, << >>)
              IN  IF r.err # NoErr THEN [results |-> NoResults, err |-> r.err]
                  ELSE [results |-> [indexVersion |-> idx.nodeId,
                                     hashes |-> r.hashes],
                        err |-> NoErr]
    ELSE [results |-> NoResults, err |-> ErrNoQueryResults]

\* Dbindex.QueryOne: the first hash of Query with Limit 1, "" if there is none
QueryOne(idx, q, fuel) ==
    LET r == Query(idx, [q EXCEPT !.limit = 1], fuel)
    IN  IF r.err # NoErr THEN [results |-> NoResults, err |-> r.err]
        ELSE [results |-> [indexVersion |-> r.results.indexVersion,
                           hashes |-> IF Len(r.results.hashes) > 0
                                      THEN <<r.results.hashes[1]>>
                                      ELSE <<NoRef>>],
              err |-> NoErr]

\* the answer of GetQueryHandler to the error of Query
QueryStatus(err) ==
    IF err = ErrNoQueryResults THEN [code |-> 404, body |-> "Not Found"]
    ELSE IF err = ErrIndexVersionsDoNotMatch
    THEN [code |-> 500, body |-> "index Versions do not match"]
    ELSE IF err = NoErr THEN [code |-> 200, body |-> "results"]
    ELSE [code |-> 500, body |-> "index Query failed"]

QueryCall ==
    /\ call.op = "Query"
    /\ call.pc = "ready"
    /\ \E fuel \in 0..(MaxLimit + 1) :
         LET r == Query(index, call.q, fuel)
         IN  call' = [call EXCEPT !.pc = "returned", !.fuel = fuel,
                                  !.results = r.results, !.err = r.err,
                                  !.status = QueryStatus(r.err)]
    /\ UNCHANGED <<store, head, pc, w, ret, written, wd, index, wm>>

QueryOneCall ==
    /\ call.op = "QueryOne"
    /\ call.pc = "ready"
    /\ \E fuel \in 0..2 :
         LET r == QueryOne(index, call.q, fuel)
         IN  call' = [call EXCEPT !.pc = "returned", !.fuel = fuel,
                                  !.results = r.results, !.err = r.err,
                                  !.status = QueryStatus(r.err)]
    /\ UNCHANGED <<store, head, pc, w, ret, written, wd, index, wm>>

\* the queries: the handler's Atoi lets any integer through
Queries ==
    [limit : -1..MaxLimit, fromEntry : -1..(MaxEntries + 1),
     indexVersion : {"", "node1", "node2"}]

InitQuery ==
    /\ store = << >>
    /\ head = NoRef
    /\ pc = [c \in Calls |-> "new"]
    /\ w = [c \in Calls |-> InitW]
    /\ ret = [op |-> "none"]
    /\ written = << >>
    /\ wm = NoWrite
    /\ wd = [pc |-> "none"]
    /\ index \in {IndexOf(first, n) : first \in 0..1, n \in 0..MaxEntries}
    /\ call \in {[op |-> op, pc |-> "ready", q |-> q, fuel |-> 0,
                  results |-> NoResults, err |-> NoErr,
                  status |-> QueryStatus(NoErr)] :
                     op \in {"Query", "QueryOne"}, q \in Queries}

QueryNext == QueryCall \/ QueryOneCall

SpecQuery == InitQuery /\ [][QueryNext]_vars

-----------------------------------------------------------------------------
(* The index: Indexer.Version and Search, kala's Local.Write, and          *)
(* WriteMetaAndVersion.  The index is a list of documents in the order of  *)
(* the instance, one per hash.                                             *)

\* kala.Fields of one field, and none
FieldsOf(value) == <<[field |-> "field", value |-> value]>>

FieldValues == {"foo", "bar"}

\* Limit(2), Skip(2)
PageSize == 2

\* q.New().Const(q.Eq(field, value)).Limit(limit).Skip(skip); limit 0 is no Limit
Eq(field, value) == [op |-> "eq", field |-> field, value |-> value]

Matches(doc, constraint) ==
    \E i \in 1..Len(doc.fields) :
        /\ doc.fields[i].field = constraint.field
        /\ doc.fields[i].value = constraint.value

\* the hashes of the documents matching the constraint, in the index's order
RECURSIVE ResultSet(_, _)
ResultSet(docs, constraint) ==
    IF docs = << >> THEN << >>
    ELSE (IF Matches(Head(docs), constraint) THEN <<Head(docs).hash>> ELSE << >>)
         \o ResultSet(Tail(docs), constraint)

\* Index.Search
SearchIgnoringSkip(idx, constraint, limit, skip) ==
    LET all == ResultSet(idx.docs, constraint)
        hi == IF limit = 0 \/ limit > Len(all) THEN Len(all) ELSE limit
    IN  SubSeq(all, 1, hi)

Search(idx, constraint, limit, skip) ==
    LET all == ResultSet(idx.docs, constraint)
        hi == IF limit = 0 \/ skip + limit > Len(all) THEN Len(all)
                                                       ELSE skip + limit
    IN  SubSeq(all, skip + 1, hi)

\* Indexer.Version(h, v, m): the fields of the meta are indexed under the
\* hash of the version; ok is whether the index takes the update
IndexerVersion(idx, h, v, m, ok) ==
    IF ~ok THEN [err |-> IoErr, index |-> idx]
    ELSE LET doc == [hash |-> h, fields |-> m.indexedFields]
             at == {i \in 1..Len(idx.docs) : idx.docs[i].hash = h}
         IN  [err |-> NoErr,
              index |-> [idx EXCEPT !.docs =
                            IF at = {} THEN Append(@, doc)
                            ELSE [i \in 1..Len(@) |->
                                    IF i \in at THEN doc ELSE @[i]]]]

\* errors.Stack
Stack(e) == Wrap(e)

\* kala.Json{} and kala.Json{Json: []byte("{}")}
ZeroJson == [json |-> << >>]

Jsons == {ZeroJson, [json |-> <<"{", "}">>]}

\* kala.Commit with its indexed fields
Commits == {[indexedFields |-> << >>]}
           \cup {[indexedFields |-> FieldsOf(x)] : x \in FieldValues}

\* kala.Version as Local.Write builds it
KalaVersion(metaHash) == [jsonHash |-> metaHash, multiBlobHash |-> NoRef]

\* kala's Local.Write(c, m, r); fuel is the number of store writes that
\* succeed.  The index is not used.
KalaWrite(st, idx, c, m, hasReader, fuel) ==
    IF hasReader
    THEN [hashes |-> << >>, err |-> [kind |-> "reader not yet implemented",
                                     wrapped |-> FALSE],
          store |-> st, index |-> idx]
    ELSE IF m = ZeroJson
    THEN [hashes |-> << >>, err |-> [kind |-> "No data given to write",
                                     wrapped |-> FALSE],
          store |-> st, index |-> idx]
    ELSE LET mw == MarshalAndWrite(st, m, fuel > 0)
             vw == MarshalAndWrite(mw.store, KalaVersion(mw.h), fuel > 1)
         IN  IF mw.err # NoErr
             THEN [hashes |-> << >>, err |-> Stack(mw.err), store |-> mw.store,
                   index |-> idx]
             ELSE IF vw.err # NoErr
             THEN [hashes |-> << >>, err |-> Stack(vw.err), store |-> vw.store,
                   index |-> idx]
             ELSE [hashes |-> <<mw.h, vw.h>>, err |-> NoErr, store |-> vw.store,
                   index |-> idx]

\* no call of Write or WriteMetaAndVersion is running, and one more may be made
Idle == wm.pc \in {"idle", "done", "failed"} /\ wm.n < MaxIndexWrites

\* the result of a Search is kept until a call of Write returns or the index
\* changes
Outdate == call' = IF call.op = "Search" THEN NoCall ELSE call

KalaWriteCall ==
    /\ Idle
    /\ \E c \in Commits, m \in Jsons, hasReader \in BOOLEAN, fuel \in 0..2 :
         LET r == KalaWrite(store, index, c, m, hasReader, fuel)
         IN  /\ store' = r.store
             /\ index' = r.index
             /\ wm' = [op |-> "Write", n |-> wm.n + 1,
                       pc |-> IF r.err = NoErr THEN "done" ELSE "failed",
                       c |-> c, m |-> m, hashes |-> r.hashes, err |-> r.err]
    /\ Outdate
    /\ UNCHANGED <<head, pc, w, ret, written, wd>>

\* the metas given to WriteMetaAndVersion
Metas == {[indexedFields |-> FieldsOf(x)] : x \in FieldValues}

\* the store.Version given by a caller writing version after version
VersionGiven(n) == [meta |-> NoRef, previousVersionCount |-> n]

\* return "", "", errors.Stack(err)
FailWrite(err) ==
    wm' = [wm EXCEPT !.pc = "failed", !.err = Stack(err),
                     !.metaH = NoRef, !.versionH = NoRef]

\* WriteMetaAndVersion: metaH, err := store.MarshalAndWrite(s, m)
WriteMeta ==
    /\ Idle
    /\ \E m \in Metas, ok \in BOOLEAN :
         LET r == MarshalAndWrite(store, m, ok)
             new == [op |-> "WriteMetaAndVersion", n |-> wm.n + 1, m |-> m,
                     v |-> VersionGiven(wm.n), metaH |-> NoRef,
                     versionH |-> NoRef, err |-> Stack(r.err), pc |-> "failed"]
         IN  /\ store' = r.store
             /\ wm' = IF r.err # NoErr THEN new
                      ELSE [new EXCEPT !.pc = "version", !.metaH = r.h,
                                       !.v = [@ EXCEPT !.meta = r.h]]
    /\ UNCHANGED <<head, pc, w, ret, written, wd, call, index>>

\* versionH, err := store.MarshalAndWrite(s, v)
WriteVersionIgnoringErr ==
    /\ wm.pc = "version"
    /\ \E ok \in BOOLEAN :
         LET r == MarshalAndWrite(store, wm.v, ok)
         IN  /\ store' = r.store
             /\ wm' = [wm EXCEPT !.pc = "index", !.versionH = Hash(wm.v)]
    /\ UNCHANGED <<head, pc, w, ret, written, wd, call, index>>

WriteVersion ==
    /\ wm.pc = "version"
    /\ \E ok \in BOOLEAN :
         LET r == MarshalAndWrite(store, wm.v, ok)
         IN  /\ store' = r.store
             /\ IF r.err # NoErr THEN FailWrite(r.err)
                ELSE wm' = [wm EXCEPT !.pc = "index", !.versionH = r.h]
    /\ UNCHANGED <<head, pc, w, ret, written, wd, call, index>>

\* i.Version(versionH, v, m), then return metaH, versionH, nil
IndexVersion ==
    /\ wm.pc = "index"
    /\ \E ok \in BOOLEAN :
         LET r == IndexerVersion(index, wm.versionH, wm.v, wm.m, ok)
         IN  /\ index' = r.index
             /\ IF r.err # NoErr THEN FailWrite(r.err)
                ELSE wm' = [wm EXCEPT !.pc = "done"]
             /\ IF r.index # index THEN Outdate ELSE call' = call
    /\ UNCHANGED <<store, head, pc, w, ret, written, wd>>

\* Search, through Local.Search: all results, the first page, the second page
SearchCall ==
    /\ \E x \in FieldValues, limit \in {0, PageSize}, skip \in {0, PageSize} :
         call' = [op |-> "Search", q |-> Eq("field", x), limit |-> limit,
                  skip |-> skip,
                  res |-> Search(index, Eq("field", x), limit, skip)]
    /\ UNCHANGED <<store, head, pc, w, ret, written, wd, index, wm>>

\* writes through kala's Local, and searches
KalaNext == KalaWriteCall \/ SearchCall

SpecKala == Init /\ [][KalaNext]_vars

\* writes through WriteMetaAndVersion, and searches
IndexNext ==
    \/ WriteMeta
    \/ WriteVersion
    \/ IndexVersion
    \/ SearchCall

SpecIndex == Init /\ [][IndexNext]_vars

-----------------------------------------------------------------------------
(* FromString: the textual query parser *)

\* the characters of an input string: the space, the separator, and the two
\* letters of the operator name "eq"
Chars == {" ", ":", "e", "q"}

\* the input strings, as sequences of characters
Inputs == SeqsUpTo(Chars, MaxInput)

\* operator.Equal
Equal == <<"Equal">>

\* a nil *string Field, and the address of a field
NilField == [set |-> FALSE, s |-> << >>]

FieldPtr(field) == [set |-> TRUE, s |-> field]

\* str.ToArgv(s) on a string without quotes or escapes, from character i on:
\* cur is the argument being read, out the arguments read
RECURSIVE ToArgvFrom(_, _, _, _)
ToArgvFrom(s, i, cur, out) ==
    IF i > Len(s)
    THEN IF cur = << >> THEN out ELSE Append(out, cur)
    ELSE IF s[i] = " "
         THEN ToArgvFrom(s, i + 1, << >>,
                         IF cur = << >> THEN out ELSE Append(out, cur))
         ELSE ToArgvFrom(s, i + 1, Append(cur, s[i]), out)

ToArgv(s) == ToArgvFrom(s, 1, << >>, << >>)

\* strings.SplitN(s, ":", n) for n > 0: at most n substrings, the last one the
\* unsplit remainder
RECURSIVE SplitN(_, _)
SplitN(s, n) ==
    IF n = 1 \/ \A i \in 1..Len(s) : s[i] # ":"
    THEN <<s>>
    ELSE LET i == CHOOSE k \in 1..Len(s) :
                      s[k] = ":" /\ \A j \in 1..(k - 1) : s[j] # ":"
         IN  <<SubSeq(s, 1, i - 1)>> \o SplitN(SubSeq(s, i + 1, Len(s)), n - 1)

splitPart(s) ==
    LET constStrs == SplitN(s, 3)
    IN  CASE Len(constStrs) = 1 ->
                 [op |-> << >>, field |-> << >>, value |-> constStrs[1]]
          [] Len(constStrs) = 2 ->
                 [op |-> << >>, field |-> constStrs[1], value |-> constStrs[2]]
          [] OTHER ->
                 [op |-> constStrs[1], field |-> constStrs[2],
                  value |-> constStrs[3]]

\* strings.Join(a, " ")
RECURSIVE Join(_)
Join(a) ==
    IF Len(a) = 0 THEN << >>
    ELSE IF Len(a) = 1 THEN a[1]
    ELSE a[1] \o <<" ">> \o Join(Tail(a))

\* the switch on op: "eq" and the empty op become operator.Equal
OpOf(op) == IF op = <<"e", "q">> \/ op = << >> THEN Equal ELSE op

\* the loop of FromString over the parts from part k on
RECURSIVE FromParts(_, _, _, _)
FromParts(parts, k, fieldless, cs) ==
    IF k > Len(parts)
    THEN [fieldless |-> fieldless, cs |-> cs]
    ELSE LET p == splitPart(parts[k])
         IN  IF p.op = << >> /\ p.field = << >>
             THEN FromParts(parts, k + 1, Append(fieldless, p.value), cs)
             ELSE FromParts(parts, k + 1, fieldless,
                            Append(cs, [Operator |-> OpOf(p.op),
                                        Field |-> FieldPtr(p.field),
                                        Value |-> p.value]))

\* New().Const(c) and New().And(cs...): the constructor called and its
\* arguments
FromString(s) ==
    LET l  == FromParts(ToArgv(s), 1, << >>, << >>)
        cs == IF Len(l.fieldless) # 0
              THEN Append(l.cs, [Operator |-> Equal, Field |-> NilField,
                                 Value |-> Join(l.fieldless)])
              ELSE l.cs
    IN  IF Len(cs) = 1 THEN [kind |-> "Const", cs |-> <<cs[1]>>]
                       ELSE [kind |-> "And", cs |-> cs]

FromStringCall ==
    /\ call.op = "input"
    /\ call' = [op |-> "FromString", s |-> call.s, q |-> FromString(call.s)]
    /\ UNCHANGED <<store, head, pc, w, ret, written, wd, index, wm>>

\* a string is given to FromString
InitParse ==
    /\ store = << >>
    /\ head = NoRef
    /\ pc = [c \in Calls |-> "new"]
    /\ w = [c \in Calls |-> InitW]
    /\ ret = [op |-> "none"]
    /\ written = << >>
    /\ wm = NoWrite
    /\ wd = [pc |-> "none"]
    /\ index = NoIndex
    /\ call \in {[op |-> "input", s |-> s] : s \in Inputs}

SpecParse == InitParse /\ [][FromStringCall]_vars

-----------------------------------------------------------------------------
(* The node: the blob handlers *)

\* store.HashNotFoundErr
HashNotFoundErr == [kind |-> "HashNotFound", wrapped |-> FALSE]

\* no bytes
NoBytes == [raw |-> << >>]

\* what os.Stat and os.Open can answer for the file of h: not existing only
\* when it is absent, success only when it is present, another error always
FileOutcomes(st, h) ==
    {"err"} \cup (IF h \in DOMAIN st THEN {"ok"} ELSE {"notexist"})

\* Disk.Exists, os.Stat answering out
DiskExists(st, h, out) ==
    CASE out = "notexist" -> [exists |-> FALSE, err |-> NoErr]
      [] out = "err"      -> [exists |-> FALSE, err |-> IoErr]
      [] OTHER            -> [exists |-> TRUE, err |-> NoErr]

\* Disk.Read, os.Open answering out
DiskRead(st, h, out) ==
    CASE out = "notexist" -> [b |-> NoBytes, err |-> HashNotFoundErr]
      [] out = "err"      -> [b |-> NoBytes, err |-> IoErr]
      [] OTHER            -> [b |-> st[h], err |-> NoErr]

\* a response: the status code, the message of http.Error or jsonutil.Error,
\* the bytes or the hash written as the body
Response(code, msg) == [code |-> code, msg |-> msg, data |-> NoBytes, hash |-> NoRef]

HeadBlobHandlerNotFoundOk(st, hash, out) ==
    LET r == DiskExists(st, hash, out)
    IN  IF r.err # NoErr THEN Response(500, "store Exists failed")
        ELSE Response(200, "")

HeadBlobHandler(st, hash, out) ==
    LET r == DiskExists(st, hash, out)
    IN  IF r.err # NoErr THEN Response(500, "store Exists failed")
        ELSE IF ~r.exists THEN Response(404, "Not Found")
        ELSE Response(200, "")

\* copy is how io.Copy(w, rc) ends: "ok", "none" (it fails before a byte of
\* the body is written) or "partial" (it fails after the status and some bytes
\* were sent: the status of http.Error comes too late)
GetBlobHandler(st, hash, out, copy) ==
    LET r == DiskRead(st, hash, out)
    IN  IF r.err = HashNotFoundErr THEN Response(404, "Not Found")
        ELSE IF r.err # NoErr THEN Response(500, "store Read failed")
        ELSE CASE copy = "ok"   -> [Response(200, "") EXCEPT !.data = r.b]
               [] copy = "none" -> Response(500, "response write failed")
               [] OTHER         -> Response(200, "response write failed")

\* read is whether ioutil.ReadAll of the request body succeeds
PutBlobHandler(st, hash, body, read, ok) ==
    LET r == IF read THEN WriteHashReader(st, hash, body, ok)
                     ELSE [err |-> IoErr, store |-> st]
    IN  IF r.err = HashNotMatchContentErr
        THEN [resp |-> Response(403, "content does not match hash"), store |-> r.store]
        ELSE IF r.err # NoErr
        THEN [resp |-> Response(500, "store write failed"), store |-> r.store]
        ELSE [resp |-> Response(200, ""), store |-> r.store]

\* jsonutil.MarshalToWriter(w, HashResponse{Hash: h}): the JSON of the value
\* as the body of a 201 response; marshal is whether it succeeds
MarshalToWriter(h, marshal) ==
    IF marshal THEN [resp |-> [Response(201, "") EXCEPT !.hash = h], err |-> NoErr]
               ELSE [resp |-> Response(200, ""), err |-> IoErr]

PostBlobHandlerAnyHash(st, body, read, ok, marshal) ==
    LET r == IF read THEN WriteReader(st, body, ok)
                     ELSE [err |-> IoErr, h |-> NoRef, store |-> st]
    IN  [resp |-> MarshalToWriter(r.h, marshal).resp, store |-> r.store]

PostBlobHandler(st, body, read, ok, marshal) ==
    LET r == IF read THEN WriteReader(st, body, ok)
                     ELSE [err |-> IoErr, h |-> NoRef, store |-> st]
    IN  IF r.err # NoErr
        THEN [resp |-> Response(500, "store write failed"), store |-> r.store]
        ELSE LET m == MarshalToWriter(r.h, marshal)
             IN  IF m.err # NoErr
                 THEN [resp |-> Response(500, "store write failed"), store |-> r.store]
                 ELSE [resp |-> m.resp, store |-> r.store]

\* HEAD /blob/:hash
HeadBlob ==
    /\ \E hash \in StoreRefs : \E out \in FileOutcomes(store, hash) :
         call' = [op |-> "HeadBlob", hash |-> hash, out |-> out,
                  resp |-> HeadBlobHandler(store, hash, out)]
    /\ UNCHANGED <<store, head, pc, w, ret, written, wd, index, wm>>

\* GET /blob/:hash
GetBlob ==
    /\ \E hash \in StoreRefs : \E out \in FileOutcomes(store, hash) :
         \E copy \in {"ok", "none", "partial"} :
           call' = [op |-> "GetBlob", hash |-> hash, out |-> out,
                    copy |-> copy,
                    resp |-> GetBlobHandler(store, hash, out, copy)]
    /\ UNCHANGED <<store, head, pc, w, ret, written, wd, index, wm>>

\* PUT /blob/:hash
PutBlob ==
    /\ \E hash \in StoreRefs, body \in StoreBytes, read, ok \in BOOLEAN :
         LET r == PutBlobHandler(store, hash, body, read, ok)
         IN  /\ store' = r.store
             /\ call' = [op |-> "PutBlob", hash |-> hash, body |-> body,
                         read |-> read, ok |-> ok, resp |-> r.resp]
    /\ UNCHANGED <<head, pc, w, ret, written, wd, index, wm>>

\* POST /blob
PostBlob ==
    /\ \E body \in StoreBytes, read, ok, marshal \in BOOLEAN :
         LET r == PostBlobHandler(store, body, read, ok, marshal)
         IN  /\ store' = r.store
             /\ call' = [op |-> "PostBlob", body |-> body, read |-> read,
                         ok |-> ok, marshal |-> marshal, resp |-> r.resp]
    /\ UNCHANGED <<head, pc, w, ret, written, wd, index, wm>>

NodeNext == HeadBlob \/ GetBlob \/ PutBlob \/ PostBlob

SpecNode == Init /\ [][NodeNext]_vars

-----------------------------------------------------------------------------
(* The node: the query handler *)

\* the default Limit of the handler's query
DefaultLimit == 5

\* the characters of the value of an integer parameter
ParamChars == {"-", "1", "x"}

\* the values given for fromEntry and limit
ParamValues == SeqsUpTo(ParamChars, MaxParamLen)

\* the parameter names of a request; "foo" is not a parameter of the handler
ParamNames == {"fromEntry", "limit", "indexVersion", "foo"}

\* r.URL.Query(): the parameters present, each with its first value
UrlQueries ==
    {[k \in ks |-> full[k]] :
        ks \in SUBSET ParamNames,
        full \in [fromEntry : ParamValues, limit : ParamValues,
                  indexVersion : {"node1", "node2"}, foo : {<<"x">>}]}

\* the digits of a decimal number, read from the left
RECURSIVE AtoiDigits(_, _, _)
AtoiDigits(s, i, acc) ==
    IF i > Len(s) THEN [i |-> acc, err |-> FALSE]
    ELSE IF s[i] = "1" THEN AtoiDigits(s, i + 1, 10 * acc + 1)
    ELSE [i |-> 0, err |-> TRUE]

\* strconv.Atoi: an optional sign and at least one digit
Atoi(s) ==
    IF s = << >> THEN [i |-> 0, err |-> TRUE]
    ELSE IF s[1] = "-"
    THEN IF Len(s) = 1 THEN [i |-> 0, err |-> TRUE]
         ELSE LET r == AtoiDigits(s, 2, 0) IN [i |-> 0 - r.i, err |-> r.err]
    ELSE AtoiDigits(s, 1, 0)

\* the parameters the loop of the handler answers with an error
Invalid(params) ==
    {k \in DOMAIN params :
        \/ k \in {"fromEntry", "limit"} /\ Atoi(params[k]).err
        \/ k \notin {"fromEntry", "limit", "indexVersion"}}

\* the answer of the loop to the invalid parameter k
InvalidAnswer(k) ==
    CASE k = "fromEntry" -> Response(500, "fromEntry must be integer")
      [] k = "limit"     -> Response(500, "limit must be integer")
      [] OTHER           -> Response(500, "invalid query param")

\* the query built from valid parameters
QueryOf(params) ==
    [limit        |-> IF "limit" \in DOMAIN params THEN Atoi(params["limit"]).i
                      ELSE DefaultLimit,
     fromEntry    |-> IF "fromEntry" \in DOMAIN params
                      THEN Atoi(params["fromEntry"]).i ELSE 0,
     indexVersion |-> IF "indexVersion" \in DOMAIN params
                      THEN params["indexVersion"] ELSE ""]

\* GetQueryHandler: bad is the invalid parameter the range over the map meets
\* first, "" when there is none; fuel is the number of database calls that
\* succeed.  A panic of Query ends the request without an answer (code 0).
GetQueryHandler(idx, params, bad, fuel) ==
    IF bad # "" THEN [resp |-> InvalidAnswer(bad), err |-> NoErr,
                      results |-> NoResults]
    ELSE LET r == Query(idx, QueryOf(params), fuel)
         IN  [resp |-> CASE r.err = ErrNoQueryResults -> Response(404, "Not Found")
                         [] r.err = ErrIndexVersionsDoNotMatch ->
                                Response(500, "index Versions do not match")
                         [] r.err = NoErr -> Response(200, "")
                         [] r.err = MakeSlicePanic -> Response(0, "panic")
                         [] OTHER -> Response(500, "index Query failed"),
              err |-> r.err, results |-> r.results]

\* GET /query
GetQuery ==
    /\ call.op = "request"
    /\ \E bad \in (IF Invalid(call.params) = {} THEN {""}
                   ELSE Invalid(call.params)) :
         \E fuel \in {0, MaxEntries + 2} :
           LET r == GetQueryHandler(index, call.params, bad, fuel)
           IN  call' = [op |-> "GetQuery", params |-> call.params, bad |-> bad,
                        fuel |-> fuel, resp |-> r.resp, err |-> r.err,
                        results |-> r.results]
    /\ UNCHANGED <<store, head, pc, w, ret, written, wd, index, wm>>

\* a request for /query arrives at a node whose index holds no entry, or
\* MaxEntries entries numbered from 1
InitGetQuery ==
    /\ store = << >>
    /\ head = NoRef
    /\ pc = [c \in Calls |-> "new"]
    /\ w = [c \in Calls |-> InitW]
    /\ ret = [op |-> "none"]
    /\ written = << >>
    /\ wm = NoWrite
    /\ wd = [pc |-> "none"]
    /\ index \in {IndexOf(1, 0), IndexOf(1, MaxEntries)}
    /\ call \in {[op |-> "request", params |-> p] : p \in UrlQueries}

SpecGetQuery == InitGetQuery /\ [][GetQuery]_vars

-----------------------------------------------------------------------------
(* BlocksCmd: listing the blocks from the head *)

\* fixity.ErrEmptyBlockchain
ErrEmptyBlockchain == [kind |-> "ErrEmptyBlockchain", wrapped |-> FALSE]

\* errors.New("block: not content block type")
NotContentBlock == [kind |-> "NotContentBlock", wrapped |-> FALSE]

\* Blockchain.Head: the block the head names, ErrEmptyBlockchain when nothing
\* was appended; ok is whether the read succeeds
BlockchainHead(st, hd, ok) ==
    IF hd = NoRef THEN [v |-> ZeroBlock, err |-> ErrEmptyBlockchain]
    ELSE LET r == readAndUnmarshal(st, hd, ok)
         IN  IF r.err # NoErr THEN [v |-> ZeroBlock, err |-> r.err]
             ELSE [v |-> [UnmarshalBlock(r.o) EXCEPT !.hash = hd,
                                                     !.hasStore = TRUE],
                   err |-> NoErr]

\* Block.Content
BlockContent(st, b, ok) ==
    IF ~b.hasStore THEN [v |-> ZeroContent, err |-> StoreNotSet]
    ELSE IF b.contentHash = NoRef THEN [v |-> ZeroContent, err |-> NotContentBlock]
    ELSE LET r == readAndUnmarshal(st, b.contentHash, ok)
         IN  IF r.err # NoErr THEN [v |-> ZeroContent, err |-> r.err]
             ELSE [v |-> [UnmarshalContent(r.o) EXCEPT !.hash = b.contentHash,
                                                       !.hasStore = TRUE],
                   err |-> NoErr]

\* w.Println: the line of block b with content c
Line(b, c) == [block |-> b.block, hash |-> b.hash, id |-> c.id]

\* the loop of BlocksCmd from its i-th round on: b is the block listed last,
\* out the lines printed, asked the blocks whose previous block was asked for,
\* fuel the number of store reads that succeed
RECURSIVE BlocksLoopAsksGenesis(_, _, _, _, _, _, _)
BlocksLoopAsksGenesis(st, b, i, limit, fuel, out, asked) ==
    IF ~(i < limit - 1)
    THEN [err |-> NoErr, out |-> out, asked |-> asked]
    ELSE LET p == BlockPrevious(st, b, fuel > 0)
             c == BlockContent(st, p.v, fuel > 1)
         IN  IF p.err # NoErr
             THEN [err |-> p.err, out |-> out, asked |-> Append(asked, b)]
             ELSE IF c.err # NoErr
             THEN [err |-> c.err, out |-> out, asked |-> Append(asked, b)]
             ELSE BlocksLoopAsksGenesis(st, p.v, i + 1, limit, fuel - 2,
                                        Append(out, Line(p.v, c.v)),
                                        Append(asked, b))

RECURSIVE BlocksLoop(_, _, _, _, _, _, _)
BlocksLoop(st, b, i, limit, fuel, out, asked) ==
    IF ~(i < limit - 1 /\ b.previousBlockHash # NoRef)
    THEN [err |-> NoErr, out |-> out, asked |-> asked]
    ELSE LET p == BlockPrevious(st, b, fuel > 0)
             c == BlockContent(st, p.v, fuel > 1)
         IN  IF p.err # NoErr
             THEN [err |-> p.err, out |-> out, asked |-> Append(asked, b)]
             ELSE IF c.err # NoErr
             THEN [err |-> c.err, out |-> out, asked |-> Append(asked, b)]
             ELSE BlocksLoop(st, p.v, i + 1, limit, fuel - 2,
                             Append(out, Line(p.v, c.v)), Append(asked, b))

\* BlocksCmd with the flag --limit
BlocksCmd(st, hd, limit, fuel) ==
    LET h == BlockchainHead(st, hd, fuel > 0)
        c == BlockContent(st, h.v, fuel > 1)
    IN  IF h.err = ErrEmptyBlockchain
        THEN [err |-> NoErr, out |-> << >>, asked |-> << >>]
        ELSE IF h.err # NoErr
        THEN [err |-> h.err, out |-> << >>, asked |-> << >>]
        ELSE IF c.err # NoErr
        THEN [err |-> c.err, out |-> << >>, asked |-> << >>]
        ELSE BlocksLoop(st, h.v, 0, limit, fuel - 2, <<Line(h.v, c.v)>>, << >>)

BlocksCmdCall ==
    /\ call.op = "BlocksCmd"
    /\ call.pc = "ready"
    /\ \E fuel \in 0..(2 * call.k) :
         LET r == BlocksCmd(store, head, call.limit, fuel)
         IN  call' = [call EXCEPT !.pc = "returned", !.fuel = fuel,
                                  !.err = r.err, !.out = r.out,
                                  !.asked = r.asked]
    /\ UNCHANGED <<store, head, pc, w, ret, written, wd, index, wm>>

\* the chain of k blocks and their contents, the content of block lost
\* missing from the store (none for 0), and the head naming the last block
InitBlocks ==
    /\ \E k \in 0..MaxHistory, limit \in -1..(MaxLimit + 1) :
        \E lost \in 0..k :
          /\ store = StoreOf({ContentAt(j) : j \in (1..k) \ {lost}}
                             \cup {BlockAt(j) : j \in 1..k})
          /\ head = IF k = 0 THEN NoRef ELSE Hash(BlockAt(k))
          /\ call = [op |-> "BlocksCmd", pc |-> "ready", k |-> k,
                     lost |-> lost, limit |-> limit, fuel |-> 0,
                     err |-> NoErr, out |-> << >>, asked |-> << >>]
    /\ pc = [c \in Calls |-> "new"]
    /\ w = [c \in Calls |-> InitW]
    /\ ret = [op |-> "none"]
    /\ written = << >>
    /\ wm = NoWrite
    /\ wd = [pc |-> "none"]
    /\ index = NoIndex

SpecBlocks == InitBlocks /\ [][BlocksCmdCall]_vars

-----------------------------------------------------------------------------
(* VersionFromChanges *)

\* errors.New("anchor versioning is not implemented")
AnchorErr == [kind |-> "AnchorNotImplemented", wrapped |-> FALSE]

\* json.Unmarshal into a store.Version
UnmarshalVersion(o) ==
    [meta |-> Field(o, "meta", NoRef),
     previousVersion |-> Field(o, "previousVersion", NoRef),
     previousVersionCount |-> Field(o, "previousVersionCount", 0)]

\* store.Version{}
ZeroVersion == UnmarshalVersion(<< >>)

\* the k-th version of a history, as stored
RECURSIVE VersionAt(_)
VersionAt(k) ==
    [meta |-> Hash([indexedFields |-> FieldsOf("foo")]),
     previousVersion |-> IF k = 1 THEN NoRef ELSE Hash(VersionAt(k - 1)),
     previousVersionCount |-> k - 1]

\* store.ReadVersion(s, h); ok is whether the read succeeds
ReadVersion(st, h, ok) ==
    LET r == readAndUnmarshal(st, h, ok)
    IN  IF r.err # NoErr THEN [v |-> ZeroVersion, err |-> r.err]
        ELSE [v |-> UnmarshalVersion(r.o), err |-> NoErr]

\* the Changes given: an anchor, the new-anchor flag, a previous version and
\* a meta, each present or not
ChangesGiven ==
    [anchor : {"", "anchor1"}, newAnchor : BOOLEAN,
     hasPrev : BOOLEAN,
     prevVer : {Hash(VersionAt(k)) : k \in 1..(MaxHistory + 1)},
     hasMeta : BOOLEAN,
     meta : {Hash([indexedFields |-> FieldsOf("bar")])}]

\* VersionFromChanges: the version built from the previous version and the
\* Changes is dropped, store.Version{} is returned
VersionFromChanges(st, c, ok) ==
    IF c.anchor # "" \/ c.newAnchor
    THEN [v |-> ZeroVersion, err |-> AnchorErr]
    ELSE LET r == IF c.hasPrev THEN ReadVersion(st, c.prevVer, ok)
                  ELSE [v |-> ZeroVersion, err |-> NoErr]
         IN  IF r.err # NoErr THEN [v |-> ZeroVersion, err |-> Stack(r.err)]
             ELSE [v |-> ZeroVersion, err |-> NoErr]

VersionFromChangesCall ==
    /\ call.op = "VersionFromChanges"
    /\ call.pc = "ready"
    /\ \E ok \in BOOLEAN :
         LET r == VersionFromChanges(store, call.c, ok)
         IN  call' = [call EXCEPT !.pc = "returned", !.ok = ok, !.v = r.v,
                                  !.err = r.err]
    /\ UNCHANGED <<store, head, pc, w, ret, written, wd, index, wm>>

\* a store holding a history of MaxHistory versions, and Changes
InitVersion ==
    /\ store = StoreOf({VersionAt(k) : k \in 1..MaxHistory})
    /\ head = NoRef
    /\ pc = [c \in Calls |-> "new"]
    /\ w = [c \in Calls |-> InitW]
    /\ ret = [op |-> "none"]
    /\ written = << >>
    /\ wm = NoWrite
    /\ wd = [pc |-> "none"]
    /\ index = NoIndex
    /\ call \in {[op |-> "VersionFromChanges", pc |-> "ready", c |-> c,
                  ok |-> TRUE, v |-> ZeroVersion, err |-> NoErr] :
                     c \in ChangesGiven}

SpecVersion == InitVersion /\ [][VersionFromChangesCall]_vars

-----------------------------------------------------------------------------
(* The registry of configure functions: Configure and NewConfig *)

\* the goroutines that call Configure, once each
Configurers == 1..MaxConcurrent

\* Config{} and the Config NewConfig starts from, with its maps made; applied
\* lists the functions that changed the Config, in order
ZeroConfig == [maps |-> FALSE, applied |-> << >>]

MadeConfig == [maps |-> TRUE, applied |-> << >>]

\* the function registered by goroutine p: it marks the Config, or fails
ConfigureFunc(p, fails) == [id |-> p, fails |-> fails]

\* what a read beyond the array of a torn slice header yields
Garbage == [id |-> 0, fails |-> TRUE]

\* c, err = f(c); the error is named by the function's id, 0 is nil
ApplyFunc(f, c) ==
    IF f.fails THEN [c |-> ZeroConfig, err |-> f.id + 1]
    ELSE [c |-> [c EXCEPT !.applied = Append(@, f.id)], err |-> 0]

\* the loop of NewConfig over the slice fs from its k-th function on; called
\* lists the functions called
RECURSIVE RangeConfigures(_, _, _, _)
RangeConfigures(fs, k, c, called) ==
    IF k > Len(fs) THEN [c |-> c, err |-> 0, called |-> called]
    ELSE LET r == ApplyFunc(fs[k], c)
         IN  IF r.err # 0
             THEN [c |-> ZeroConfig, err |-> r.err,
                   called |-> Append(called, fs[k].id)]
             ELSE RangeConfigures(fs, k + 1, r.c, Append(called, fs[k].id))

\* NewConfig on the slice its range statement read
NewConfig(fs) == RangeConfigures(fs, 1, MadeConfig, << >>)

\* configuresMu.Lock() returns when no goroutine holds the mutex
CanLockAlways(mu) == TRUE

CanLock(mu) == mu = 0

\* the goroutine holding configuresMu, 0 for none
Holder == call.mu

\* the slices the unlocked read of NewConfig can yield: configures itself
\* when no Configure call is between Lock and Unlock; otherwise the slice
\* before that call's append, the slice after it, or a torn header (the new
\* length with the old array, whose next element is not a function)
SlicesRead ==
    IF Holder = 0 THEN {call.configures}
    ELSE LET f      == call.procs[Holder].f
             before == IF call.procs[Holder].pc = "appended"
                       THEN SubSeq(call.configures, 1, Len(call.configures) - 1)
                       ELSE call.configures
         IN  {before, Append(before, f), Append(before, Garbage)}

\* Configure: configuresMu.Lock()
ConfigureLock(p) ==
    /\ call.op = "config"
    /\ call.procs[p].pc = "idle"
    /\ CanLock(call.mu)
    /\ call' = [call EXCEPT !.mu = p, !.procs[p].pc = "locked"]
    /\ UNCHANGED <<store, head, pc, w, ret, written, wd, index, wm>>

\* Configure: append(configures, f) reads the slice
ConfigureRead(p) ==
    /\ call.op = "config"
    /\ call.procs[p].pc = "locked"
    /\ call' = [call EXCEPT !.procs[p].slice = call.configures,
                            !.procs[p].pc = "read"]
    /\ UNCHANGED <<store, head, pc, w, ret, written, wd, index, wm>>

\* Configure: configures = the slice read with f appended
ConfigureAppend(p) ==
    /\ call.op = "config"
    /\ call.procs[p].pc = "read"
    /\ call' = [call EXCEPT !.configures = Append(call.procs[p].slice,
                                                  call.procs[p].f),
                            !.procs[p].slice = << >>,
                            !.procs[p].pc = "appended"]
    /\ UNCHANGED <<store, head, pc, w, ret, written, wd, index, wm>>

\* Configure: the deferred configuresMu.Unlock(), and the return
ConfigureUnlock(p) ==
    /\ call.op = "config"
    /\ call.procs[p].pc = "appended"
    /\ call' = [call EXCEPT !.mu = 0, !.procs[p].pc = "returned"]
    /\ UNCHANGED <<store, head, pc, w, ret, written, wd, index, wm>>

\* NewConfig, called once at any moment; returned and running are the
\* Configure calls that had returned and that were under way when it was
\* called
NewConfigCall ==
    /\ call.op = "config"
    /\ call.res.pc = "none"
    /\ \E fs \in SlicesRead :
         LET r == NewConfig(fs)
         IN  call' = [call EXCEPT !.res =
                        [pc |-> "done", c |-> r.c, err |-> r.err,
                         called |-> r.called,
                         returned |-> {p \in Configurers :
                                          call.procs[p].pc = "returned"},
                         running |-> {p \in Configurers :
                                         call.procs[p].pc \in
                                            {"locked", "read", "appended"}},
                         configures |-> call.configures]]
    /\ UNCHANGED <<store, head, pc, w, ret, written, wd, index, wm>>

\* no Configure call made yet; each goroutine has its function
InitConfig ==
    /\ store = << >>
    /\ head = NoRef
    /\ pc = [c \in Calls |-> "new"]
    /\ w = [c \in Calls |-> InitW]
    /\ ret = [op |-> "none"]
    /\ written = << >>
    /\ wm = NoWrite
    /\ wd = [pc |-> "none"]
    /\ index = NoIndex
    /\ \E fails \in [Configurers -> BOOLEAN] :
         call = [op |-> "config", mu |-> 0, configures |-> << >>,
                 procs |-> [p \in Configurers |->
                               [pc |-> "idle", slice |-> << >>,
                                f |-> ConfigureFunc(p, fails[p])]],
                 res |-> [pc |-> "none"]]

ConfigNext ==
    \/ \E p \in Configurers :
          \/ ConfigureLock(p)
          \/ ConfigureRead(p)
          \/ ConfigureAppend(p)
          \/ ConfigureUnlock(p)
    \/ NewConfigCall

SpecConfig == InitConfig /\ [][ConfigNext]_vars

-----------------------------------------------------------------------------
(* Properties of the block chain *)

BlockRefs(st) == {h \in DOMAIN st : IsBlock(st[h])}

ChunkBlobRefs(st) == {h \in DOMAIN st : IsChunkOrBlob(st[h])}

\* the refs met following PreviousBlockHash from h
RECURSIVE Chain(_)
Chain(h) ==
    IF h = NoRef \/ ~Exists(store, h) THEN {}
    ELSE {h} \cup Chain(store[h].previousBlockHash)

\* the block numbers met following PreviousBlockHash from h; -1 marks a missing block
RECURSIVE WalkNumbers(_)
WalkNumbers(h) ==
    IF h = NoRef THEN << >>
    ELSE IF ~Exists(store, h) THEN <<-1>>
    ELSE <<store[h].block>> \o WalkNumbers(store[h].previousBlockHash)

Done == {c \in Calls : pc[c] = "done"}

Failed == {c \in Calls : pc[c] = "failed"}

\* C1: N concurrent Write calls that all succeeded leave N blocks numbered
\* 1..N, no two sharing a number or a previous-block hash, all reachable from
\* the head.
C1_NoFork ==
    (\A c \in 1..MaxConcurrent : pc[c] = "done") =>
        /\ Cardinality(BlockRefs(store)) = MaxConcurrent
        /\ {store[h].block : h \in BlockRefs(store)} = 1..MaxConcurrent
        /\ \A g, h \in BlockRefs(store) :
              g # h => /\ store[g].block # store[h].block
                       /\ store[g].previousBlockHash # store[h].previousBlockHash
        /\ BlockRefs(store) = Chain(head)

\* C2: after K >= 1 successful appends made one after another, the head block
\* has number K, the walk back from the head reads K, K-1, ..., 1, and the
\* block numbered 1 is the only block with an empty PreviousBlockHash (on the
\* chain in any case; among all stored blocks once every call has returned
\* without error).
C2_ChainIntegrity ==
    LET K == Cardinality(Done)
    IN  K >= 1 =>
          /\ Exists(store, head)
          /\ store[head].block = K
          /\ WalkNumbers(head) = [i \in 1..K |-> K + 1 - i]
          /\ \A h \in Chain(head) :
                (store[h].previousBlockHash = NoRef) <=> (store[h].block = 1)
          /\ (Failed = {} /\ \A c \in Calls : ~Running(c)) =>
                /\ BlockRefs(store) = Chain(head)
                /\ Cardinality({h \in BlockRefs(store) :
                                  store[h].previousBlockHash = NoRef}) = 1

C2_Witness ==
    /\ Cardinality(Done) = 3
    /\ Failed = {}
    /\ \E c, d \in Done : c # d /\ w[c].cHash = w[d].cHash

\* the head is empty or names a block in the store
HeadValid == head = NoRef \/ (Exists(store, head) /\ IsBlock(store[head]))

\* a step that changes the head is the return of a call whose chunk, blob,
\* content and block are all in the store, and sets the head to that block
HeadChange ==
    head' # head =>
        \E c \in Calls :
            /\ pc[c] = "setHead" /\ pc'[c] = "done"
            /\ head' = w[c].bHash
            /\ \A i \in 1..Len(w[c].hashes) : Exists(store, w[c].hashes[i])
            /\ Len(w[c].hashes) = Len(w[c].cHashes) + 3
            /\ store[w[c].bHash] = Block(c)
            /\ store[w[c].cHash] = Content(c)
            /\ store[w[c].blobHash] = Blob(c)

\* a step in which a call returns an error leaves the head as it was
FailKeepsHead ==
    (\E c \in Calls : pc[c] # "failed" /\ pc'[c] = "failed") => head' = head

\* C3: the head changes only as the last step of a Write whose store writes
\* all succeeded, a failing Write leaves it as it was, and it is always empty
\* or the hash of a stored block.
C3_HeadOnlyAfterWrites ==
    /\ []HeadValid
    /\ [][HeadChange]_vars
    /\ [][FailKeepsHead]_vars

\* a call failed after writing its block, while the head names another call's block
C3_Witness ==
    /\ head # NoRef
    /\ Failed # {}
    /\ \E h \in BlockRefs(store) : h \notin Chain(head)

\* calls d, c that wrote the same payload, d before c
SamePayload(d, c) ==
    /\ d < c
    /\ pc[d] = "done"
    /\ pc[c] = "done"
    /\ w[d].payload = w[c].payload

\* a step of call c, writing again the payload of a call that has returned
SecondWriteStep(c) ==
    /\ pc'[c] # pc[c]
    /\ pc'[c] # "failed"
    /\ \E d \in Done : w[d].payload = w'[c].payload

\* C7: of two writes of the same payload made one after another, the second
\* yields the same chunk refs and blob ref and adds no chunk or blob object,
\* and each write appends exactly one new block to the chain.
C7_DedupButNewBlock ==
    /\ [](\A d, c \in Calls : SamePayload(d, c) =>
              /\ w[d].cHashes = w[c].cHashes
              /\ w[d].blobHash = w[c].blobHash
              /\ w[d].bHash # w[c].bHash
              /\ {w[d].bHash, w[c].bHash} \subseteq Chain(head))
    /\ [][\A c \in Calls : SecondWriteStep(c) =>
              ChunkBlobRefs(store') = ChunkBlobRefs(store)]_vars
    /\ [][\A c \in Calls : (pc[c] = "setHead" /\ pc'[c] = "done") =>
              /\ head' # head
              /\ store[head'].previousBlockHash = head
              /\ store[head'].block = Len(WalkNumbers(head)) + 1]_vars

C7_Witness ==
    \E d, c \in Calls :
        /\ SamePayload(d, c)
        /\ c = d + 1
        /\ Len(w[c].cHashes) = 2
        /\ w[d].id # w[c].id

\* the store holds only bytes that hash to their ref
RefsMatch == \A h \in DOMAIN store : Hash(store[h]) = h

\* what is stored under a ref stays, byte for byte
Immutable == \A h \in DOMAIN store : Exists(store', h) /\ store'[h] = store[h]

C5_HashRejection ==
    ret.op = "WriteHash" =>
        /\ ret.h # Hash(ret.b) =>
              /\ ret.err = HashNotMatchContentErr
              /\ store = ret.before
              /\ ~Exists(ret.before, ret.h) => ~Exists(store, ret.h)
        /\ ret.err = NoErr =>
              /\ ret.h = Hash(ret.b)
              /\ Exists(store, ret.h)
              /\ store[ret.h] = ret.b
        /\ store # ret.before => ret.h = Hash(ret.b)

C5_Witness ==
    /\ ret.op = "WriteHash"
    /\ ret.h # Hash(ret.b)
    /\ ~Exists(store, ret.h)
    /\ DOMAIN store # {}

\* C6: every successful Write of the same bytes returns the same ref, that
\* ref exists from the first call on, and the store holds one object for them.
C6_WriteIdempotent ==
    /\ \A i, j \in 1..Len(written) :
          written[i][1] = written[j][1] => written[i][2] = written[j][2]
    /\ \A i \in 1..Len(written) :
          /\ Exists(store, written[i][2])
          /\ Cardinality({h \in DOMAIN store : store[h] = written[i][1]}) = 1

\* the same bytes written twice with a write of other bytes in between
C6_Witness ==
    /\ Len(written) = 3
    /\ written[1][1] = written[3][1]
    /\ written[2][1] # written[1][1]

\* the successful calls made before call c under the id of call c
EarlierSameId(c) == {d \in Done : d < c /\ w[d].id = w[c].id}

Latest(S) == CHOOSE d \in S : \A e \in S : e <= d

\* C12: for each non-empty id, every Content written except the first of its
\* id records as previousContentHash the hash of the Content written just
\* before it under that id, and the first records none.
C12_ContentHistory ==
    \A c \in Done :
        w[c].id # "" =>
            /\ Exists(store, w[c].cHash)
            /\ store[w[c].cHash].previousContentHash =
                  IF EarlierSameId(c) = {} THEN NoRef
                  ELSE w[Latest(EarlierSameId(c))].cHash

-----------------------------------------------------------------------------
(* Properties of WriteData *)

\* WriteData returned without error
Returned == wd.pc = "returned" /\ ~wd.err

\* the last ref returned: the Data node's
DataRef == wd.refs[Len(wd.refs)]

\* the store writes of the call: one per page, the Data node counted
PagesWritten == Len(wd.refs) - wd.n

Ceil(n, d) == (n + d - 1) \div d

Min(a, b) == IF a < b THEN a ELSE b

\* the refs of the last page that WriteData leaves out: a whole page when the
\* count is a multiple of partSize above one page
Lost(n) == IF n > partSize /\ n % partSize = 0 THEN partSize ELSE 0

\* C8: for every ref count, reading from the Data node through the MoreParts
\* links gives back the list that WriteData was given (whichever way the
\* reader puts the pages together).
C8_RoundTrip ==
    Returned => \/ ReadAppend(store, DataRef) = Arg
                \/ ReadPrepend(store, DataRef) = Arg

\* C9 as stated: the Data node embeds the last page, and prepending the pages
\* reached through MoreParts rebuilds the list.
C9_DataEmbedsLastPage ==
    Returned =>
        /\ wd.data.parts = GoSlice(Arg, partSize * morePartCount(wd.n), wd.n)
        /\ ReadPrepend(store, DataRef) = Arg

\* C9 amended: the Data node embeds the first page; the later refs are in
\* Parts pages written last page first, each page's MoreParts naming the page
\* of the next refs (none on the last page) and the Data node's MoreParts the
\* page of the second hundred; appending the pages reached from the Data node
\* reads the refs in their order, up to the page left out (Lost).
C9_DataEmbedsFirstPage ==
    Returned =>
        LET n == wd.n
            m == morePartCount(n)
            \* page k holds the refs from k * partSize on; it is written (m+1-k)th
            page(k) == wd.refs[n + m + 1 - k]
        IN  /\ Len(wd.refs) = n + m + 1
            /\ SubSeq(wd.refs, 1, n) = Arg
            /\ store[DataRef] = wd.data
            /\ wd.data.parts = SubSeq(Arg, 1, Min(n, partSize))
            /\ wd.data.moreParts = IF m = 0 THEN NoRef ELSE page(1)
            /\ \A k \in 1..m :
                  /\ store[page(k)].schemaType = "parts"
                  /\ store[page(k)].moreParts = IF k = m THEN NoRef ELSE page(k + 1)
                  /\ k < m => store[page(k)].parts =
                                 SubSeq(Arg, k * partSize + 1, (k + 1) * partSize)
            /\ ReadAppend(store, DataRef) = SubSeq(Arg, 1, n - Lost(n))

C9_Witness == Returned /\ wd.n = MaxRefs /\ ~wd.same

\* C10 as stated: ceil(n / partSize) pages are written, the Data node's
\* embedded page counted, none with more than partSize refs.
C10_PageCount ==
    Returned =>
        /\ PagesWritten = Ceil(wd.n, partSize)
        /\ \A h \in DOMAIN store : Len(store[h].parts) <= partSize

\* C10 amended: as stated for n >= 1; for n = 0 one page is written, the Data
\* node with an empty embedded page.
C10_PageCountFromOne ==
    Returned =>
        /\ PagesWritten = IF wd.n = 0 THEN 1 ELSE Ceil(wd.n, partSize)
        /\ \A h \in DOMAIN store : Len(store[h].parts) <= partSize

C10_Witness == Returned /\ wd.n = 2 * partSize /\ PagesWritten = 2

-----------------------------------------------------------------------------
(* Properties of WriteChunks *)

RECURSIVE Concat(_)
Concat(ss) == IF ss = << >> THEN << >> ELSE Head(ss) \o Concat(Tail(ss))

RECURSIVE SumLen(_)
SumLen(ss) == IF ss = << >> THEN 0 ELSE Len(Head(ss)) + SumLen(Tail(ss))

ChunksReturned == call.op = "WriteChunks" /\ call.pc = "returned" /\ ~call.err

\* C11: on success WriteChunks returns one ref per chunk yielded, in order,
\* each stored under its hash; totalSize is the sum of the sizes of those
\* chunks and the checksum the hash of their bytes in order, whatever chunk
\* value comes with the end of the stream.
C11_ChunksDescribed ==
    ChunksReturned =>
        /\ Len(call.refs) = Len(call.chunks)
        /\ \A i \in 1..Len(call.chunks) :
              /\ call.refs[i] = Hash([raw |-> call.chunks[i]])
              /\ Exists(store, call.refs[i])
        /\ call.totalSize = SumLen(call.chunks)
        /\ call.contentHash = HexSum(Concat(call.chunks))

-----------------------------------------------------------------------------
(* Properties of Previous *)

PreviousReturned == call.op \in {"Block.Previous", "Content.Previous"} /\ call.n >= 1

\* the previous hash of the receiver of the last call
PrevHash == IF call.op = "Block.Previous" THEN call.v.previousBlockHash
                                          ELSE call.v.previousContentHash

\* C13: Previous on a Block or Content with an empty previous hash returns
\* ErrNoPrev without reading the store; with a previous hash it never returns
\* ErrNoPrev, and a failed read of the previous object is reported as the
\* error of the read.
C13_NoPrevError ==
    PreviousReturned =>
        /\ PrevHash = NoRef => (call.err = ErrNoPrev /\ call.reads = 0)
        /\ PrevHash # NoRef => call.err # ErrNoPrev
        /\ (call.reads >= 1 /\ call.err # NoErr) => call.err \in {ReadErr, JsonErr}
        /\ (PrevHash # NoRef /\ call.v.hasStore /\ ~Exists(store, PrevHash)) =>
              call.err = ReadErr

\* the second call of a walk finds the previous object missing
C13_Witness ==
    /\ PreviousReturned
    /\ call.n = 2
    /\ PrevHash # NoRef
    /\ ~Exists(store, PrevHash)
    /\ call.err = ReadErr

\* C14: Content.Previous on a Content of index i >= 1 returns a Content of
\* index i + 1, so that a walk of n calls from index i ends at i + n, and on a
\* Content of index 0 a Content of index 0; the stored Content has no index.
C14_IndexFromHead ==
    (call.op = "Content.Previous" /\ call.n >= 1 /\ call.err = NoErr) =>
        /\ call.v.index >= 1 => call.res.index = call.v.index + 1
        /\ call.v.index = 0 => call.res.index = 0
        /\ call.res.index = IF call.start = 0 THEN 0 ELSE call.start + call.n
        /\ call.res.hash = call.v.previousContentHash
        /\ "index" \notin DOMAIN store[call.res.hash]

\* two calls from the head Content of an id
C14_Witness ==
    /\ call.op = "Content.Previous"
    /\ call.n = 2
    /\ call.err = NoErr
    /\ call.start = 1
    /\ call.res.index = 3

-----------------------------------------------------------------------------
(* Properties of Query *)

QueryReturned == call.op = "Query" /\ call.pc = "returned"

\* the index version was read: the call of GetNodeId succeeded
VersionRead == call.fuel >= 1

VersionDiffers == call.q.indexVersion # "" /\ call.q.indexVersion # index.nodeId

\* the entries at positions k, k + 1, ... up to n entries or the first
\* position without an entry
RECURSIVE Run(_, _)
Run(k, n) ==
    IF n <= 0 \/ NoRecord(index, k) THEN << >>
    ELSE <<index.entries[k]>> \o Run(k + 1, n - 1)

\* C15: a Query (or QueryOne) with a non-empty IndexVersion other than the
\* index's version fails with ErrIndexVersionsDoNotMatch whatever Limit and
\* FromEntry are, once the version was read from the database; the handler
\* answers it otherwise than no-results; with an empty or matching
\* IndexVersion that error is never returned.
C15_VersionMismatch ==
    (call.op \in {"Query", "QueryOne"} /\ call.pc = "returned") =>
        /\ (VersionRead /\ VersionDiffers) =>
              /\ call.err = ErrIndexVersionsDoNotMatch
              /\ call.status # QueryStatus(ErrNoQueryResults)
              /\ call.results = NoResults
        /\ ~VersionDiffers => call.err # ErrIndexVersionsDoNotMatch
        /\ ~VersionRead => call.err = DbErr

\* a mismatching version with Limit 0 and no FromEntry
C15_Witness ==
    /\ QueryReturned
    /\ VersionRead /\ VersionDiffers
    /\ call.q.limit = 0
    /\ call.q.fromEntry = 0
    /\ call.err = ErrIndexVersionsDoNotMatch

\* C16: a Query that is not refused for its version and meets no database
\* failure fails with ErrNoQueryResults whenever Limit is 0 or there is no
\* entry at FromEntry, and a successful Query returns at least one hash.
C16_NoResultsOrNonEmpty ==
    (QueryReturned /\ call.q.limit >= 0 /\ call.q.fromEntry >= 0) =>
        /\ ( /\ call.err \notin {DbErr, ErrIndexVersionsDoNotMatch}
             /\ call.q.limit = 0 \/ NoRecord(index, call.q.fromEntry) ) =>
              call.err = ErrNoQueryResults
        /\ call.err = NoErr => call.results.hashes # << >>

-----------------------------------------------------------------------------
(* Properties of the index *)

\* the same search is made again on the index as it was
SearchAgain ==
    /\ call.op = "Search"
    /\ call'.op = "Search"
    /\ call'.q = call.q /\ call'.limit = call.limit /\ call'.skip = call.skip
    /\ index' = index

\* the second page is asked for right after the first, of 5 results in all
SecondPageAfterFirst ==
    /\ call.op = "Search"
    /\ call.limit = PageSize /\ call.skip = 0
    /\ call'.op = "Search"
    /\ call'.q = call.q /\ call'.limit = PageSize /\ call'.skip = PageSize
    /\ index' = index
    /\ Len(ResultSet(index.docs, call.q)) = 5

Range(f) == {f[i] : i \in DOMAIN f}

KalaWritten == wm.op = "Write" /\ wm.pc = "done" /\ wm.c.indexedFields # << >>

\* C19: after Write succeeds for a record with an indexed field f = v, a
\* Search(Eq(f, v)) returns the last of the hashes that Write returned (all
\* the writes of the model are of that one version, so it is the only result).
C19_WriteThenSearch ==
    ( /\ KalaWritten
      /\ call.op = "Search"
      /\ call.q = Eq(wm.c.indexedFields[1].field, wm.c.indexedFields[1].value)
      /\ call.limit = 0 /\ call.skip = 0 ) =>
        call.res = <<wm.hashes[Len(wm.hashes)]>>

IndexedHashes == {index.docs[i].hash : i \in 1..Len(index.docs)}

\* every indexed version and its meta are in the store
IndexedInStore ==
    \A h \in IndexedHashes :
        /\ Exists(store, h)
        /\ Exists(store, store[h].meta)

\* the index changes only in the call of Indexer.Version, made with the hash
\* of a version that is in the store with its meta
VersionAfterWrites ==
    index' # index =>
        /\ wm.pc = "index"
        /\ Exists(store, wm.versionH) /\ store[wm.versionH] = wm.v
        /\ Exists(store, wm.metaH) /\ store[wm.metaH] = wm.m
        /\ wm.v.meta = wm.metaH
        /\ IndexedHashes' = IndexedHashes \cup {wm.versionH}

\* a failed index update leaves the store as it is, the version and the meta
\* readable by hash, and the version out of the search results
IndexFailKeeps ==
    (wm.pc = "index" /\ wm'.pc = "failed") =>
        /\ store' = store
        /\ index' = index
        /\ Exists(store', wm.versionH) /\ store'[wm.versionH] = wm.v
        /\ Exists(store', wm.metaH) /\ store'[wm.metaH] = wm.m
        /\ \A x \in FieldValues :
              wm.versionH \notin Range(Search(index', Eq("field", x), 0, 0))

\* C20: Indexer.Version is called with a version hash only once the meta and
\* the version are in the store; when the index update fails they stay in the
\* store, readable by hash, and the version is not found by Search.
C20_IndexAfterStore ==
    /\ []IndexedInStore
    /\ [][VersionAfterWrites]_vars
    /\ [][IndexFailKeeps]_vars

\* an index update failed after another succeeded
C20_Witness ==
    /\ wm.op = "WriteMetaAndVersion"
    /\ wm.pc = "failed"
    /\ Exists(store, Hash(wm.v))
    /\ Hash(wm.v) \notin IndexedHashes
    /\ IndexedHashes # {}

-----------------------------------------------------------------------------
(* Properties of FromString *)

\* the positions of the separator in a token
Colons(t) == {i \in 1..Len(t) : t[i] = ":"}

NoColon(t) == Colons(t) = {}

HasColon(t) == Colons(t) # {}

\* the smallest position of S
First(S) == CHOOSE i \in S : \A j \in S : i <= j

\* the constraint the claim gives a token with one separator, or with two or
\* more: "eq" and the empty operator name stand for Equal
Expected(t) ==
    LET i == First(Colons(t))
    IN  IF Cardinality(Colons(t)) = 1
        THEN [Operator |-> Equal,
              Field    |-> FieldPtr(SubSeq(t, 1, i - 1)),
              Value    |-> SubSeq(t, i + 1, Len(t))]
        ELSE LET j  == First(Colons(t) \ {i})
                 op == SubSeq(t, 1, i - 1)
             IN  [Operator |-> IF op \in {<< >>, <<"e", "q">>} THEN Equal
                               ELSE op,
                  Field    |-> FieldPtr(SubSeq(t, i + 1, j - 1)),
                  Value    |-> SubSeq(t, j + 1, Len(t))]

IsFieldConstraint(c) == c.Field.set

IsFreeText(c) == ~c.Field.set

\* the constraints of the query returned that name a field, in order
FieldConstraints == SelectSeq(call.q.cs, IsFieldConstraint)

\* the free-text constraints of the query returned
FreeText == SelectSeq(call.q.cs, IsFreeText)

\* C21: every token with one ':' gives the constraint (field, value) with
\* operator Equal, every token with two or more ':' the constraint (op, field,
\* value) whose value is the rest of the token, in the order of the tokens; a
\* token with no ':' gives no field constraint, and without such a token there
\* is no free-text constraint.
C21_SplitOnFirstTwo ==
    call.op = "FromString" =>
        LET tokens == ToArgv(call.s)
            fields == SelectSeq(tokens, HasColon)
        IN  /\ FieldConstraints = [k \in 1..Len(fields) |-> Expected(fields[k])]
            /\ SelectSeq(tokens, NoColon) = << >> => FreeText = << >>

\* the tokens the parser takes as field-less: no operator and no field
Fieldless(t) == splitPart(t).op = << >> /\ splitPart(t).field = << >>

\* C22: the field constraints are combined with AND; when there are
\* field-less tokens there is exactly one free-text constraint, with operator
\* Equal and the field-less tokens joined by single spaces in input order as
\* its value, and it is OR'd with the field constraints, not one of the
\* operands of their AND; without a field-less token there is no free-text
\* constraint.
C22_FreeTextOred ==
    call.op = "FromString" =>
        LET tokens == ToArgv(call.s)
            free   == [k \in 1..Len(SelectSeq(tokens, Fieldless)) |->
                          splitPart(SelectSeq(tokens, Fieldless)[k]).value]
        IN  /\ free = << >> => FreeText = << >>
            /\ free # << >> =>
                  /\ Len(FreeText) = 1
                  /\ FreeText[1].Operator = Equal
                  /\ FreeText[1].Value = Join(free)
                  /\ FieldConstraints # << >> => call.q.kind = "Or"

-----------------------------------------------------------------------------
(* Properties of the node's handlers *)

\* C23: HEAD and GET of a ref answer 404 only when the ref is absent from the
\* store, and always when the store reports it absent; PUT answers 403
\* exactly when the body read does not hash to the ref; every other failure of
\* the store call answers 500, and success answers 200.
C23_BlobStatuses ==
    /\ call.op \in {"HeadBlob", "GetBlob"} =>
          /\ call.resp.code = 404 => ~Exists(store, call.hash)
          /\ call.out = "notexist" => call.resp.code = 404
          /\ call.out = "err" => call.resp.code = 500
          /\ call.out = "ok" /\ call.op = "HeadBlob" => call.resp.code = 200
          /\ call.out = "ok" /\ call.op = "GetBlob" /\ call.copy = "ok" =>
                /\ call.resp.code = 200
                /\ call.resp.data = store[call.hash]
    /\ call.op = "PutBlob" =>
          /\ call.resp.code = 403 <=> (call.read /\ call.hash # Hash(call.body))
          /\ call.resp.code = 500 <=>
                (~call.read \/ (call.hash = Hash(call.body) /\ ~call.ok))
          /\ call.resp.code \in {200, 403, 500}

\* a ref absent from a store that holds other refs is answered 404
C23_Witness ==
    /\ call.op = "HeadBlob"
    /\ call.resp.code = 404
    /\ store # << >>
    /\ ~Exists(store, call.hash)

\* a POST answered 201 carries the hash of the body, and the store holds the
\* body under it; a POST whose store write failed answers 500 without a hash
PostAnswer ==
    call.op = "PostBlob" =>
        /\ call.resp.code = 201 =>
              /\ call.resp.hash = Hash(call.body)
              /\ Exists(store, call.resp.hash)
              /\ store[call.resp.hash] = call.body
        /\ call.read /\ ~call.ok =>
              /\ call.resp.code = 500
              /\ call.resp.hash = NoRef
        /\ call.read /\ call.ok /\ call.marshal => call.resp.code = 201

\* a POST whose store write fails leaves the store as it was
PostFailKeeps ==
    call'.op = "PostBlob" /\ call'.read /\ ~call'.ok => store' = store

C24_QueryStatuses ==
    call.op = "GetQuery" =>
        /\ Invalid(call.params) # {} => call.resp.code = 400
        /\ Invalid(call.params) = {} =>
              /\ call.err = ErrNoQueryResults => call.resp.code = 404
              /\ call.err = DbErr => call.resp.code = 500


-----------------------------------------------------------------------------
(* Properties of WriteData's result *)

\* the refs of the Parts pages and of the Data nodes in the store
PageRefs == {h \in DOMAIN store : store[h].schemaType = "parts"}

DataRefs == {h \in DOMAIN store : store[h].schemaType = "data"}

\* the refs returned after the input refs and before the last
ReturnedPages == SubSeq(wd.refs, wd.n + 1, Len(wd.refs) - 1)

\* C26: on success the refs returned are the input refs in their order, then
\* the ref of every Parts page written, each once, then the Data node's ref;
\* when a write fails an error and no refs are returned and the store holds no
\* Data node; a Data node or page in the store never names a page that is not
\* in the store.
C26_RefsReturned ==
    /\ Returned =>
          /\ Len(wd.refs) > wd.n
          /\ SubSeq(wd.refs, 1, wd.n) = Arg
          /\ DataRef = Hash(wd.data)
          /\ DataRefs = {DataRef}
          /\ {ReturnedPages[k] : k \in 1..Len(ReturnedPages)} = PageRefs
          /\ Len(ReturnedPages) = Cardinality(PageRefs)
    /\ wd.pc = "returned" /\ wd.err =>
          /\ wd.refs = << >>
          /\ wd.data = NoData
          /\ DataRefs = {}
    /\ wd.pc = "returned" /\ DataRefs = {} => wd.err
    /\ \A h \in PageRefs \cup DataRefs :
          store[h].moreParts # NoRef => store[h].moreParts \in PageRefs

\* a write failed after two pages were written
C26_Witness ==
    /\ wd.pc = "returned"
    /\ wd.err
    /\ Cardinality(PageRefs) = 2


-----------------------------------------------------------------------------
(* Properties of BlocksCmd *)

Max(a, b) == IF a > b THEN a ELSE b

\* the command has returned
Listed == call.op = "BlocksCmd" /\ call.pc = "returned"

\* C27: on an empty chain the listing succeeds with no block; on a chain of K
\* blocks with limit L a listing that succeeds has min(max(L, 1), K) blocks;
\* every listing starts at the head and goes down block number by block
\* number, and the previous block of the genesis block is never asked for.
C27_BlocksListed ==
    Listed =>
        /\ call.k = 0 => call.err = NoErr /\ call.out = << >>
        /\ call.k > 0 /\ call.err = NoErr =>
              Len(call.out) = Min(Max(call.limit, 1), call.k)
        /\ \A j \in 1..Len(call.out) :
              /\ call.out[j].block = call.k + 1 - j
              /\ call.out[j].hash = Hash(BlockAt(call.k + 1 - j))
        /\ \A j \in 1..Len(call.asked) :
              /\ call.asked[j].block # 1
              /\ call.asked[j].previousBlockHash # NoRef

\* the limit is larger than the chain: the listing ends at the genesis block
C27_Witness ==
    /\ Listed
    /\ call.err = NoErr
    /\ call.k = 2
    /\ call.limit > call.k
    /\ Len(call.out) = 2
    /\ call.out[2].block = 1


-----------------------------------------------------------------------------
(* Properties of VersionFromChanges *)

\* C28: when the Changes name a previous version that is read from the store,
\* the version returned has that version's fields with PreviousVersion set to
\* the hash named, PreviousVersionCount one greater and Meta replaced when the
\* Changes supply one; the zero Version is returned without an error only
\* when the Changes carry no version information.
C28_VersionFromPrevious ==
    call.op = "VersionFromChanges" /\ call.pc = "returned" /\ call.err = NoErr =>
        /\ call.c.hasPrev =>
              LET prev == UnmarshalVersion(store[call.c.prevVer])
              IN  /\ call.v.previousVersion = call.c.prevVer
                  /\ call.v.previousVersionCount = prev.previousVersionCount + 1
                  /\ call.v.meta = IF call.c.hasMeta THEN call.c.meta
                                                     ELSE prev.meta
        /\ call.v = ZeroVersion => ~call.c.hasPrev /\ ~call.c.hasMeta


-----------------------------------------------------------------------------
(* Properties of Configure and NewConfig *)

\* f was registered by a Configure call that had returned when NewConfig was
\* called
InReturned(f) == f.id \in call.res.returned

\* the functions of the returned calls, in registration order
Registered == SelectSeq(call.res.configures, InReturned)

\* C29: once the N Configure calls made have returned, none still under way,
\* each of their functions is registered once, and NewConfig calls exactly
\* those N functions, once each in registration order, each on the Config
\* the one before returned, up to the first that fails; it returns the Config
\* of the last, or Config{} with the error of the function that failed.
C29_NoLostRegistration ==
    call.op = "config" /\ call.res.pc = "done" /\ call.res.running = {} =>
        LET n == Len(call.res.called)
        IN  /\ \A p \in call.res.returned :
                  Cardinality({k \in 1..Len(Registered) : Registered[k].id = p}) = 1
            /\ n <= Len(Registered)
            /\ \A k \in 1..n : call.res.called[k] = Registered[k].id
            /\ \A k \in 1..(n - 1) : ~Registered[k].fails
            /\ call.res.err = 0 =>
                  /\ n = Len(Registered)
                  /\ n > 0 => ~Registered[n].fails
                  /\ call.res.c = [maps |-> TRUE, applied |-> call.res.called]
            /\ call.res.err # 0 =>
                  /\ Registered[n].fails
                  /\ call.res.err = ApplyFunc(Registered[n], MadeConfig).err
                  /\ call.res.c = ZeroConfig


\* two concurrent Configure calls have returned and NewConfig stopped at the
\* second function, which failed
C29_Witness ==
    /\ call.op = "config"
    /\ call.res.pc = "done"
    /\ call.res.running = {}
    /\ Cardinality(call.res.returned) = 2
    /\ Len(call.res.called) = 2
    /\ call.res.err # 0

=============================================================================
